---- MODULE Spec2Model ----
(***************************************************************************)
(* Model of the generate -> execute -> judge control core of the           *)
(* migration pipeline: WorkerAgent (bounded-retry loop and result envelope *)
(* parser), MigrationExecutor (dependency orderer and unit orchestrator)   *)
(* and the discovery loop of SchemaAnalyzerAgent.                          *)
(*                                                                         *)
(* Text is modelled as a sequence of tokens.  Each token stands for a      *)
(* fixed piece of text; no keyword or marker can be formed across a token  *)
(* boundary, so the position of a token in the sequence orders the         *)
(* character offsets str.find() returns.                                   *)
(*                                                                         *)
(* JSON scalars are modelled as tagged strings: "absent" (key missing),    *)
(* "true", "false", "str:<text>", "int:<n>".                               *)
(***************************************************************************)
EXTENDS Integers, Sequences, FiniteSets, TLC

VARIABLES
    \* ---- WorkerAgent.execute_task ----
    max_attempts,     \* WorkerAgent.max_attempts
    kernel,           \* WorkerAgent.kernel: "none" | "started"
    pc,               \* control position of the pipeline
    attempt,          \* loop variable of execute_task
    code,             \* artifact returned by _ask_llm_for_code: "none" | "short" | "code"
    conversation,     \* list of repair messages
    last_error,       \* None or the error of the latest failed attempt
    last_output,      \* None or the raw output of the latest execution
    raw_output,       \* raw_output of the latest kernel.execute that returned
    success,          \* success flag of execute_task
    result_data,      \* envelope parsed in the latest parsing attempt
    task_result,      \* dict returned by execute_task
    llm_calls,        \* number of llm_client.create calls of the current execute_task
    kernel_execs,     \* number of kernel.execute calls of the current execute_task
    exception,        \* exception that left execute_task / execute_migration, or "none"
    env_log,          \* what oracle and kernel answered, one entry per attempt
    \* ---- MigrationExecutor.execute_migration ----
    task_idx,         \* index i of the unit in the tasks list
    units_run,        \* ids of the units handed to execute_task, in call order
    completed_tasks,  \* completed_tasks list
    failed_tasks,     \* failed_tasks list
    execution_log,    \* MigrationExecutor.execution_log
    report,           \* report returned by execute_migration
    \* ---- MigrationExecutor._build_mega_tasks (dependency orderer) ----
    tables,           \* catalog["tables"]: sequence of [table_name, refs]
    table_deps,       \* dict table_name -> set of referred tables
    ordered_tables,   \* output list
    remaining,        \* set of names not yet emitted
    opc,              \* control position of the ordering loop
    \* ---- SchemaAnalyzerAgent.analyze_schema (discovery loop) ----
    iteration,
    stable_rounds,
    prev_fingerprint,
    satisfied,
    metadata,
    max_iterations,
    stable_rounds_required,
    session_started,  \* session_started of analyze_schema
    dpc,              \* control position of the discovery loop
    fp_log,           \* fingerprints of the parsed non-empty payloads, in order
    disc_answer,      \* what oracle and kernel answered in the latest iteration
    last_payload,     \* the tables of the latest payload the kernel printed between the markers
    \* ---- JupyterKernelSession ----
    km,               \* self.km: "none", "unlaunched" or the context its manager launched
    kc,               \* self.kc: "none" or the context its channels are connected to
    started,          \* self._started
    alive,            \* the isolated contexts (kernel processes) that exist
    launched,         \* the contexts launched so far
    spc,              \* "idle", or "executing" while execute() waits in its loop
    msg_id,           \* msg_id of the submission execute() waits for
    submitted,        \* ids of the submissions made so far, in order
    channel,          \* the messages that have arrived on the iopub channel, in order
    read_pos,         \* number of messages get_iopub_msg has handed out
    sub_start,        \* read_pos at the time of the current submission
    output_chunks,    \* output_chunks of execute()
    sess_result,      \* how the latest call of start / execute / shutdown ended
    waited,           \* time get_iopub_msg has been waiting for the next message
    since_submit,     \* time since the current submission, counted up to MaxWait + 1
    \* ---- SchemaAnalyzerAgent._build_fingerprint, called on its own ----
    fp_metadata,      \* the entity list handed to _build_fingerprint
    fp_other,         \* a rearrangement of fp_metadata
    fp_how,           \* what was rearranged: "none", "entities", "columns", "primary_key", "foreign_keys"
    fp_first,         \* _build_fingerprint(fp_metadata)
    fp_second,        \* _build_fingerprint(fp_other)
    \* ---- PlannerAgent.send_instruction ----
    max_retries,      \* PlannerAgent.max_retries
    ppc,              \* "idle", "loop" (in the retry loop), "after" (left by break), "returned", "raised"
    plan_attempt,     \* loop variable attempt of send_instruction
    messages,         \* the messages list of the current call
    response_content, \* response_content of the current call
    history,          \* PlannerAgent.history
    plan_replies,     \* what the oracle answered to the current instruction, in order
    instructions_sent, \* number of send_instruction calls made so far
    \* ---- AzureOpenAIChatCompletionClient of the worker ----
    total_usage,      \* _total_usage: prompt and completion tokens counted so far
    \* ---- api_server: the registry of runs and their pending logs ----
    migrations,       \* migrations[id]["logs"]: the list object a run's record refers to, 0 = no record
    log_lists,        \* the list objects created so far, by reference
    add_calls,        \* number of add_log calls made; the n-th call carries entry n
    appended,         \* per run, the entries add_log has appended, in order
    reads,            \* the status responses produced so far, in order
    reads_started,    \* number of status reads begun
    w_pc,             \* add_log of the pipeline thread: "idle", or "append" between lookup and append
    w_run,            \* the run of the add_log call in progress
    w_list,           \* the list object that call looked up
    r_pc,             \* per reader: "idle", "copied" (record copied), "cleared" (list replaced)
    r_run,            \* per reader, the run it reads
    r_list,           \* per reader, the list object its response refers to
    \* ---- what leaves execute_task: generation requests and attempt logs ----
    last_request,     \* the messages list of the latest llm_client.create call of a worker
    task_dir,         \* the _log_attempt writes into the current unit's task_dir, in order
    requester,        \* whose _ask_llm_for_code builds last_request: "executor" | "discovery"
    \* ---- callers of MigrationExecutor.execute_migration ----
    reinvocations,    \* calls of execute_migration on the same executor after the first
    registry          \* migrations[migration_id] as run_migration_pipeline leaves it after phase 3

taskVars == <<max_attempts, kernel, pc, attempt, code, conversation, last_error,
              last_output, raw_output, success, result_data, task_result,
              llm_calls, kernel_execs, exception, env_log>>
migVars  == <<task_idx, units_run, completed_tasks, failed_tasks, execution_log, report>>
ordVars  == <<tables, table_deps, ordered_tables, remaining, opc>>
discVars == <<iteration, stable_rounds, prev_fingerprint, satisfied, metadata,
              max_iterations, stable_rounds_required, session_started, dpc, fp_log,
              disc_answer, last_payload>>
\* the variables of execute_task that analyze_schema has no counterpart of
taskOnlyVars == <<max_attempts, kernel, pc, attempt, code, last_error, last_output,
                  raw_output, success, result_data, task_result, kernel_execs,
                  exception, env_log>>
sessVars == <<km, kc, started, alive, launched, spc, msg_id, submitted, channel,
              read_pos, sub_start, output_chunks, sess_result, waited, since_submit>>
fpVars   == <<fp_metadata, fp_other, fp_how, fp_first, fp_second>>
\* the variables of the components the pipeline itself does not step
planVars == <<max_retries, ppc, plan_attempt, messages, response_content, history,
              plan_replies, instructions_sent>>
usageVars == <<total_usage>>
\* the variables no step of the pipeline touches
apiVars   == <<migrations, log_lists, add_calls, appended, reads, reads_started,
               w_pc, w_run, w_list, r_pc, r_run, r_list>>
otherVars == <<fpVars, planVars, apiVars>>
auditVars == <<last_request, task_dir, requester>>
callerVars == <<reinvocations, registry>>
extVars  == <<usageVars, otherVars, auditVars, callerVars>>
coreVars == <<taskVars, migVars, ordVars, discVars, sessVars>>
vars     == <<coreVars, extVars>>

(***************************************************************************)
(* Bounds                                                                  *)
(***************************************************************************)
MaxAttempts == 3      \* max_attempts ranges over 1..MaxAttempts
MaxOutLen   == 4      \* raw outputs of the parser check have at most MaxOutLen tokens
MaxTables   == 3      \* catalogs of the orderer check have at most MaxTables entries
MaxIterations == 4    \* max_iterations ranges over 1..MaxIterations
MaxRounds   == 3      \* stable_rounds_required ranges over 0..MaxRounds
MaxMsgs     == 3      \* at most MaxMsgs messages arrive on the channel of one client
MaxWait     == 2      \* JupyterKernelSession.timeout, in clock ticks
MaxEntities == 2      \* entity lists handed to _build_fingerprint have at most MaxEntities entries
MaxReinvocations == 1 \* execute_migration is invoked again at most MaxReinvocations times
WindowAttempts == 6   \* requests are built after at most WindowAttempts earlier attempts
MaxRetries  == 3      \* PlannerAgent.max_retries ranges over 1..MaxRetries
MaxInstructions == 2  \* at most MaxInstructions instructions are sent to one planner
MaxLogs     == 2      \* at most MaxLogs add_log calls are made
MaxReads    == 2      \* at most MaxReads status reads are made

(***************************************************************************)
(* Text tokens                                                             *)
(***************************************************************************)
RESULT_START == "TASK_RESULT_START"
RESULT_END   == "TASK_RESULT_END"

\* JSON documents a generated artifact may print
JsonTokens == {"J_TRUE",      \* {"success": true}
               "J_FALSE",     \* {"success": false}
               "J_ERRSTR",    \* {"success": false, "error": "boom"}
               "J_ERRNUM",    \* {"success": false, "error": 5}
               "J_MSG",       \* {"success": false, "message": "bad rows"}
               "J_LIST"}      \* [1]
\* free text
TextTokens == {"T_ERR",       \* "Traceback (most recent call last) ..."
               "T_ERRUP",     \* "ERROR: relation does not exist"
               "T_OK",        \* "Loaded 5 rows"
               "T_PLAIN"}     \* "hello"
Tokens == {RESULT_START, RESULT_END, "WS"} \cup JsonTokens \cup TextTokens

\* "error" / "exception" / "traceback" occurs in the lower-cased text of the token
HasErrorKeyword(tok) == tok \in {"T_ERR", "T_ERRUP", "J_ERRSTR", "J_ERRNUM"}
\* "success" / "completed" / "loaded" occurs in the lower-cased text of the token
HasSuccessKeyword(tok) == tok \in {"T_OK", "J_TRUE", "J_FALSE", "J_ERRSTR", "J_ERRNUM", "J_MSG"}

NoneOut == <<"None">>         \* Python None where a text is expected
None    == "None"             \* Python None where a scalar is expected

RECURSIVE SeqsUpTo(_, _)
SeqsUpTo(S, n) ==
    IF n = 0 THEN {<<>>}
    ELSE LET shorter == SeqsUpTo(S, n - 1)
         IN  shorter \cup {Append(s, x) : s \in {t \in shorter : Len(t) = n - 1}, x \in S}

(***************************************************************************)
(* Envelopes: what json.loads / the fallback returns                       *)
(***************************************************************************)
Envelope(k, s, e, m, d) == [kind |-> k, success |-> s, error |-> e, message |-> m, data |-> d]
EmptyDict == Envelope("dict", "absent", "absent", "absent", "absent")

\* the texts (Python str) that occur as scalars
StrValues == {"str:boom", "str:bad rows", "str:Task reported failure",
              "str:Execution error", "str:No result markers found",
              "str:Failed to parse result JSON",
              "str:Task appears successful based on output",
              "str:LLM returned empty or insufficient code",
              "str:Kernel execution error", "str:Jupyter kernel did not respond within timeout.",
              "str:'NoneType' object has no attribute 'execute'",
              "str:'list' object has no attribute 'get'"}

\* bool(v) of a scalar: None, a missing key (dict.get gives None), false, "" and 0 are falsy
Truthy(v) == v \notin {None, "absent", "false", "str:", "int:0"}
\* v[:n] is defined for a str; an int or None is not subscriptable
Sliceable(v) == v \in StrValues

\* str.find: 0-based position of the first occurrence, -1 when absent
Find(s, tok) ==
    IF \E i \in 1..Len(s) : s[i] = tok
    THEN (CHOOSE i \in 1..Len(s) : s[i] = tok /\ \A j \in 1..(i - 1) : s[j] # tok) - 1
    ELSE -1

\* str.strip over whitespace tokens
RECURSIVE LStrip(_)
LStrip(s) == IF s # <<>> /\ Head(s) = "WS" THEN LStrip(Tail(s)) ELSE s
RECURSIVE RStrip(_)
RStrip(s) == IF s # <<>> /\ s[Len(s)] = "WS" THEN RStrip(SubSeq(s, 1, Len(s) - 1)) ELSE s
Strip(s) == RStrip(LStrip(s))

\* json.loads of one JSON token
JsonValue(tok) ==
    CASE tok = "J_TRUE"   -> Envelope("dict", "true",  "absent",   "absent",       "absent")
      [] tok = "J_FALSE"  -> Envelope("dict", "false", "absent",   "absent",       "absent")
      [] tok = "J_ERRSTR" -> Envelope("dict", "false", "str:boom", "absent",       "absent")
      [] tok = "J_ERRNUM" -> Envelope("dict", "false", "int:5",    "absent",       "absent")
      [] tok = "J_MSG"    -> Envelope("dict", "false", "absent",   "str:bad rows", "absent")
      [] tok = "J_LIST"   -> Envelope("list", "absent", "absent",  "absent",       "absent")

\* json.loads succeeds exactly on one JSON document (surrounding whitespace stripped)
JsonValid(text) == Len(text) = 1 /\ text[1] \in JsonTokens

\* faulty variant: the success keywords are looked for first
HeuristicFallbackSuccessFirst(out) ==
    IF \E i \in 1..Len(out) : HasSuccessKeyword(out[i])
    THEN Envelope("dict", "true", "absent", "str:Task appears successful based on output", "raw_output")
    ELSE IF \E i \in 1..Len(out) : HasErrorKeyword(out[i])
    THEN Envelope("dict", "false", "str:Execution error", "absent", "absent")
    ELSE Envelope("dict", "false", "str:No result markers found", "absent", "absent")

\* the three-way keyword classification of the fallback, executor.py 378-384
HeuristicFallback(out) ==
    IF \E i \in 1..Len(out) : HasErrorKeyword(out[i])
    THEN Envelope("dict", "false", "str:Execution error", "absent", "absent")
    ELSE IF \E i \in 1..Len(out) : HasSuccessKeyword(out[i])
    THEN Envelope("dict", "true", "absent", "str:Task appears successful based on output", "raw_output")
    ELSE Envelope("dict", "false", "str:No result markers found", "absent", "absent")

\* faulty variant: the order of the two markers is not looked at
MarkersUnusableNoOrder(start_idx, end_idx) == start_idx = -1 \/ end_idx = -1

\* the fallback condition of executor.py 377
MarkersUnusable(start_idx, end_idx) == start_idx = -1 \/ end_idx = -1 \/ end_idx <= start_idx

\* faulty variant: a decode failure is handed to the keyword classification
JsonFailureAsFallback(json_text) == HeuristicFallback(json_text)

\* executor.py 389-390: the envelope returned on json.JSONDecodeError; the text
\* between the markers is part of the error string, there is no "data" key
JsonFailure(json_text) ==
    Envelope("dict", "false", "str:Failed to parse result JSON", "absent", "absent")

\* WorkerAgent._parse_task_result
ParseTaskResult(out) ==
    LET start_idx == Find(out, RESULT_START)
        end_idx   == Find(out, RESULT_END)
    IN  IF MarkersUnusable(start_idx, end_idx)
        THEN HeuristicFallback(out)
        ELSE LET json_text == Strip(SubSeq(out, start_idx + 2, end_idx))
             IN  IF JsonValid(json_text)
                 THEN JsonValue(json_text[1])
                 ELSE JsonFailure(json_text)

(***************************************************************************)
(* WorkerAgent.execute_task                                                *)
(***************************************************************************)
Msg(r, k, a, e, o) == [role |-> r, kind |-> k, attempt |-> a, error |-> e, output |-> o]

\* what the environment can answer: a reply with an artifact ("code"), a reply
\* that is empty or holds fewer than 50 characters of code ("short"), or a failing
\* request ("raise")
OracleAnswers == {"code", "short", "raise"}
KernelOutput(out) == [kind |-> "output", out |-> out]
KernelError       == [kind |-> "error",   out |-> NoneOut]
KernelTimeout     == [kind |-> "timeout", out |-> NoneOut]
NoKernelAnswer    == [kind |-> "skipped", out |-> NoneOut]   \* the artifact was rejected
NoKernelSession   == [kind |-> "nokernel", out |-> NoneOut]  \* self.kernel is None

NoResult == [returned |-> FALSE, success |-> FALSE, attempts |-> 0,
             result |-> EmptyDict, last_error |-> None]

\* the dict built by the return statement, executor.py 200-207
TaskReturn(succ, att, rd, le) ==
    [returned |-> TRUE, success |-> succ, attempts |-> att, result |-> rd,
     last_error |-> IF succ THEN None ELSE le]

\* executor.py 182: error or message or "Task reported failure"
EnvelopeError(rd) ==
    IF Truthy(rd.error) THEN rd.error
    ELSE IF Truthy(rd.message) THEN rd.message
    ELSE "str:Task reported failure"

\* faulty variant: the presence of the key is taken for success
EnvelopeSuccessKeyPresent(rd) == rd.success # "absent"

\* executor.py 177: result_data.get("success")
EnvelopeSuccess(rd) == Truthy(rd.success)

\* faulty variant: the break is missing
BreaksLoopNever(ok) == FALSE

\* executor.py 180: the loop is left on success
BreaksLoop(ok) == ok

\* executor.py 334-335: last_error[:1500] is evaluated for a truthy last_error
RequestBuildRaises(att, le) == att # 1 /\ Truthy(le) /\ ~Sliceable(le)

\* end of one loop iteration without break: next attempt, or the return after range() is exhausted
EndAttempt(succ, rd, le) ==
    IF attempt < max_attempts
    THEN /\ attempt' = attempt + 1
         /\ pc' = "ask"
         /\ task_result' = task_result
    ELSE /\ attempt' = attempt
         /\ pc' = "task_ret"
         /\ task_result' = TaskReturn(succ, attempt, rd, le)

\* executor.py 138-149
BeginTask ==
    /\ pc = "task_begin"
    /\ pc' = "ask"
    /\ attempt' = 1
    /\ code' = "none"
    /\ conversation' = <<>>
    /\ last_error' = None
    /\ last_output' = NoneOut
    /\ raw_output' = NoneOut
    /\ success' = FALSE
    /\ result_data' = EmptyDict
    /\ task_result' = NoResult
    /\ llm_calls' = 0
    /\ kernel_execs' = 0
    /\ env_log' = <<>>
    /\ task_dir' = <<>>
    /\ UNCHANGED <<max_attempts, kernel, exception, last_request, requester>>
    /\ UNCHANGED <<migVars, ordVars, discVars, sessVars, usageVars, otherVars, callerVars>>
\* RequestUsage(prompt_tokens, completion_tokens)
RequestUsage(pt, ct) == [prompt_tokens |-> pt, completion_tokens |-> ct]
\* the "usage" object of a response
Usages == {RequestUsage(2, 1)}

\* faulty variant: the request is counted before its outcome is known
CreateCountsFailedCalls(o, total, usage) ==
    RequestUsage(total.prompt_tokens + 1, total.completion_tokens)

\* azure_openai_client.py 117-139: _total_usage after one create(); a failing
\* post, raise_for_status, response.json() or data["choices"][0] raises before
\* line 136 is reached
Create(o, total, usage) ==
    IF o = "raise"
    THEN total
    ELSE RequestUsage(total.prompt_tokens + usage.prompt_tokens,
                      total.completion_tokens + usage.completion_tokens)

\* Python's conversation[-n:]: the last n entries, all of them when there are fewer
Window(conv, n) ==
    SubSeq(conv, IF Len(conv) > n THEN Len(conv) - n + 1 ELSE 1, Len(conv))

\* faulty variant: the whole conversation is sent
TaskWindowUnbounded(conv) == conv

\* executor.py 330: for msg in conversation[-4:]
TaskWindow(conv) == Window(conv, 4)

\* faulty variant: the output excerpt is left out of the request
OutputExcerptDropped(lo) == <<>>

\* executor.py 336-337: "if last_output:" adds last_output[:800]; the outputs of
\* this model are shorter than 800 characters, None and "" add nothing
OutputExcerpt(lo) == IF lo \in {NoneOut, <<>>} THEN <<>> ELSE lo

\* executor.py 323-341: the messages list _ask_llm_for_code hands to create()
TaskRequest(att, conv, le, lo) ==
    << Msg("system", "prompt", 0, None, NoneOut) >> \o
    IF att = 1
    THEN << Msg("user", "task", att, None, NoneOut) >>
    ELSE TaskWindow(conv) \o
         IF Truthy(le)
         THEN << Msg("user", "error_context", att, le, OutputExcerpt(lo)) >>
         ELSE <<>>

\* executor.py 158: "if not code or len(code.strip()) < 50" is false
AcceptsArtifact(o) == o = "code"

\* faulty variant: one file per task_dir, whatever the attempt
LogAttemptFlat(att, log_type) == [attempt |-> 1, log_type |-> log_type]

\* executor.py 392-398: _log_attempt writes task_dir/attempt_{attempt}/{log_type}.txt
LogAttempt(att, log_type) == [attempt |-> att, log_type |-> log_type]

\* faulty variant: a rejected artifact leaves last_error as it was
RejectionErrorKept(le) == le

\* executor.py 159: last_error of a rejected artifact
RejectionError(le) == "str:LLM returned empty or insufficient code"

\* executor.py 154-165: _ask_llm_for_code and the check of the artifact
AskLLM(o, usage) ==
    /\ pc = "ask"
    /\ IF RequestBuildRaises(attempt, last_error)
       THEN /\ pc' = "task_raised"
            /\ exception' = "TypeError"
            /\ UNCHANGED <<attempt, code, conversation, last_error, llm_calls, env_log, task_result>>
            /\ UNCHANGED <<total_usage, last_request, task_dir>>
       ELSE /\ llm_calls' = llm_calls + 1
            /\ last_request' = TaskRequest(attempt, conversation, last_error, last_output)
            /\ task_dir' = IF AcceptsArtifact(o)
                           THEN Append(task_dir, LogAttempt(attempt, "code"))
                           ELSE task_dir
            /\ total_usage' = Create(o, total_usage, usage)
            /\ CASE o = "raise" ->
                      /\ pc' = "task_raised"
                      /\ exception' = "UpstreamError"
                      /\ UNCHANGED <<attempt, code, conversation, last_error, env_log, task_result>>
                 [] o = "short" ->
                      /\ code' = "short"
                      /\ last_error' = RejectionError(last_error)
                      /\ conversation' = Append(conversation,
                             Msg("user", "insufficient", attempt,
                                 RejectionError(last_error), NoneOut))
                      /\ env_log' = Append(env_log, [oracle |-> o, kernel |-> NoKernelAnswer])
                      /\ EndAttempt(success, result_data, RejectionError(last_error))
                      /\ UNCHANGED exception
                 [] o = "code" ->
                      /\ code' = "code"
                      /\ pc' = "exec"
                      /\ UNCHANGED <<attempt, conversation, last_error, env_log, task_result, exception>>
    /\ UNCHANGED <<max_attempts, kernel, last_output, raw_output, success, result_data, kernel_execs>>
    /\ UNCHANGED <<migVars, ordVars, discVars, sessVars, otherVars, requester, callerVars>>
\* faulty variant: the failed artifact is not put into the conversation
RepairExchangeUserOnly(att, err, out) ==
    << Msg("user", "failed", att, err, IF out = NoneOut THEN <<>> ELSE out) >>

\* executor.py 191-198: the assistant turn with code[:2000] and the user turn
\* with last_error and (last_output or '')[:500]
RepairExchange(att, err, out) ==
    << Msg("assistant", "code", att, None, NoneOut),
       Msg("user", "failed", att, err, IF out = NoneOut THEN <<>> ELSE out) >>

\* executor.py 170-198: execute the artifact, parse and judge the output
RunCode(k) ==
    /\ pc = "exec"
    /\ LET noKernel   == kernel = "none"
           returned   == ~noKernel /\ k.kind = "output"
           parsed     == ParseTaskResult(k.out)
           getRaises  == returned /\ parsed.kind # "dict"
           ok         == returned /\ ~getRaises /\ EnvelopeSuccess(parsed)
           new_result == IF returned THEN parsed ELSE result_data
           new_error  == IF noKernel THEN "str:'NoneType' object has no attribute 'execute'"
                         ELSE IF k.kind = "error" THEN "str:Kernel execution error"
                         ELSE IF k.kind = "timeout"
                              THEN "str:Jupyter kernel did not respond within timeout."
                         ELSE IF getRaises THEN "str:'list' object has no attribute 'get'"
                         ELSE IF ok THEN last_error
                         ELSE EnvelopeError(parsed)
           new_output == IF returned /\ ~getRaises THEN k.out ELSE NoneOut
       IN  /\ k.kind \in {"output", "error", "timeout"}
           /\ kernel_execs' = IF noKernel THEN kernel_execs ELSE kernel_execs + 1
           /\ raw_output' = IF returned THEN k.out ELSE raw_output
           /\ result_data' = new_result
           /\ last_error' = new_error
           /\ last_output' = new_output
           /\ success' = ok
           /\ env_log' = Append(env_log, [oracle |-> "code",
                                        kernel |-> IF noKernel THEN NoKernelSession ELSE k])
           /\ IF BreaksLoop(ok)
              THEN /\ pc' = "task_ret"
                   /\ task_result' = TaskReturn(ok, attempt, new_result, new_error)
                   /\ UNCHANGED <<attempt, conversation>>
              ELSE /\ conversation' = conversation \o
                          RepairExchange(attempt, new_error, new_output)
                   /\ EndAttempt(ok, new_result, new_error)
           \* executor.py 172 and 189: output.txt once execute returned, error.txt
           \* in the except branch
           /\ task_dir' = task_dir
                  \o (IF returned THEN << LogAttempt(attempt, "output") >> ELSE <<>>)
                  \o (IF ~returned \/ getRaises
                      THEN << LogAttempt(attempt, "error") >> ELSE <<>>)
    /\ UNCHANGED <<max_attempts, kernel, code, llm_calls, exception, last_request, requester>>
    /\ UNCHANGED <<migVars, ordVars, discVars, sessVars, usageVars, otherVars, callerVars>>
(***************************************************************************)
(* MigrationExecutor._build_mega_tasks: the dependency orderer             *)
(***************************************************************************)
\* the table names of the catalogs of up to MaxTables entries
Names == {"A", "B", "C"}
\* the table names of the four-table catalogs
FourNames == Names \cup {"D"}
Table(n, refs) == [table_name |-> n, refs |-> refs]

TableNames(tb) == {tb[i].table_name : i \in 1..Len(tb)}

\* a later entry of the same name overwrites table_deps[table_name], executor.py 442
LastIndex(tb, n) ==
    CHOOSE i \in 1..Len(tb) :
        tb[i].table_name = n /\ \A j \in (i + 1)..Len(tb) : tb[j].table_name # n

\* faulty variant: a self-reference is kept as a dependency
StripSelfKept(n, refs) == refs

\* executor.py 440: a reference of a table to itself is no dependency
StripSelf(n, refs) == refs \ {n}

\* executor.py 433-442
TableDeps(tb) == [n \in TableNames(tb) |-> StripSelf(n, tb[LastIndex(tb, n)].refs)]

\* faulty variant: only a table without any dependency is taken
ReadyWithoutDeps(t, deps, rem) == deps[t] = {}

\* executor.py 449: no unresolved dependency is left
Ready(t, deps, rem) == deps[t] \cap rem = {}

\* executor.py 451: remaining.remove(t)
RemainingAfterPick(rem, t) == rem \ {t}

\* all orders in which a set can be iterated
Perms(S) ==
    {p \in [1..Cardinality(S) -> S] : \A i, j \in 1..Cardinality(S) : i # j => p[i] # p[j]}

\* faulty variants: the tables of the cycle are dropped / only one of them is emitted
CycleFallbackDrop(ord, perm) == ord
CycleFallbackFirst(ord, perm) == ord \o SubSeq(perm, 1, 1)

\* executor.py 455: ordered_tables.extend(remaining), perm being the iteration order of the set
CycleFallback(ord, perm) == ord \o perm

\* executor.py 433-446
BuildDeps ==
    /\ pc = "mig_build"
    /\ opc = "deps"
    /\ table_deps' = TableDeps(tables)
    /\ remaining' = TableNames(tables)
    /\ ordered_tables' = <<>>
    /\ opc' = "sort"
    /\ UNCHANGED tables
    /\ UNCHANGED <<taskVars, migVars, discVars, sessVars, extVars>>
\* executor.py 447-452: one pass of the while loop that finds a table without
\* unresolved dependency; list(remaining) has the arbitrary order of a set, so
\* the first such table it meets can be any of them
OrdPick(t) ==
    /\ pc = "mig_build"
    /\ opc = "sort"
    /\ t \in remaining
    /\ Ready(t, table_deps, remaining)
    /\ ordered_tables' = Append(ordered_tables, t)
    /\ remaining' = RemainingAfterPick(remaining, t)
    /\ UNCHANGED <<tables, table_deps, opc>>
    /\ UNCHANGED <<taskVars, migVars, discVars, sessVars, extVars>>
\* executor.py 453-456: the for loop found nothing, a cycle is left
OrdCycle(perm) ==
    /\ pc = "mig_build"
    /\ opc = "sort"
    /\ remaining # {}
    /\ \A t \in remaining : ~Ready(t, table_deps, remaining)
    /\ perm \in Perms(remaining)
    /\ ordered_tables' = CycleFallback(ordered_tables, perm)
    /\ opc' = "done"
    /\ UNCHANGED <<tables, table_deps, remaining>>
    /\ UNCHANGED <<taskVars, migVars, discVars, sessVars, extVars>>
\* executor.py 447: the while condition fails
OrdExit ==
    /\ pc = "mig_build"
    /\ opc = "sort"
    /\ remaining = {}
    /\ opc' = "done"
    /\ UNCHANGED <<tables, table_deps, ordered_tables, remaining>>
    /\ UNCHANGED <<taskVars, migVars, discVars, sessVars, extVars>>
OrderStep ==
    \/ BuildDeps
    \/ \E t \in FourNames : OrdPick(t)
    \/ \E perm \in UNION {Perms(S) : S \in SUBSET FourNames} : OrdCycle(perm)
    \/ OrdExit

(***************************************************************************)
(* MigrationExecutor.execute_migration                                     *)
(***************************************************************************)
\* the task_id of the four mega-tasks, executor.py 480-604
Tasks == <<"1_setup_and_create_tables", "2_extract_and_load_all_data",
           "3_add_foreign_keys", "4_validate_migration">>

NoReport == [returned |-> FALSE, success |-> FALSE, total_tasks |-> 0,
             completed_tasks |-> 0, failed_tasks |-> 0,
             completed_task_ids |-> <<>>, failed_task_ids |-> <<>>,
             execution_log |-> <<>>]

\* faulty variant: success is derived from the completed units
ReportSuccessIfAnyCompleted(completed, failed, log) ==
    [returned |-> TRUE,
     success |-> Len(completed) > 0,
     total_tasks |-> Len(Tasks),
     completed_tasks |-> Len(completed),
     failed_tasks |-> Len(failed),
     completed_task_ids |-> completed,
     failed_task_ids |-> failed,
     execution_log |-> log]

\* executor.py 677-688
Report(completed, failed, log) ==
    [returned |-> TRUE,
     success |-> Len(failed) = 0,
     total_tasks |-> Len(Tasks),
     completed_tasks |-> Len(completed),
     failed_tasks |-> Len(failed),
     completed_task_ids |-> completed,
     failed_task_ids |-> failed,
     execution_log |-> log]

\* executor.py 655-660
LogEntry(id, res) ==
    [task_id |-> id,
     status |-> IF res.success THEN "success" ELSE "failed",
     attempts |-> res.attempts,
     result |-> res.result]

\* executor.py 668: result.get('last_error', 'Unknown')[:300]
FailurePrintRaises(res) == ~Sliceable(res.last_error)

\* executor.py 621-624: start_kernel inside the try; a failing start leaves through
\* the finally clause, which shuts the kernel down
StartMigration(startOk) ==
    /\ pc = "mig_start"
    /\ IF startOk
       THEN /\ kernel' = "started"
            /\ pc' = "mig_build"
            /\ UNCHANGED exception
       ELSE /\ kernel' = "none"
            /\ pc' = "mig_raised"
            /\ exception' = "StartupError"
    /\ UNCHANGED <<max_attempts, attempt, code, conversation, last_error, last_output,
                   raw_output, success, result_data, task_result, llm_calls,
                   kernel_execs, env_log>>
    /\ UNCHANGED <<migVars, ordVars, discVars, sessVars, extVars>>
\* executor.py 627-639: _build_mega_tasks has returned
TasksBuilt ==
    /\ pc = "mig_build"
    /\ opc = "done"
    /\ pc' = "mig_loop"
    /\ task_idx' = 1
    /\ completed_tasks' = <<>>
    /\ failed_tasks' = <<>>
    /\ UNCHANGED <<units_run, execution_log, report>>
    /\ UNCHANGED <<max_attempts, kernel, attempt, code, conversation, last_error,
                   last_output, raw_output, success, result_data, task_result,
                   llm_calls, kernel_execs, exception, env_log>>
    /\ UNCHANGED <<ordVars, discVars, sessVars, extVars>>
\* executor.py 641-653: the next unit is handed to execute_task
NextUnit ==
    /\ pc = "mig_loop"
    /\ task_idx <= Len(Tasks)
    /\ pc' = "task_begin"
    /\ units_run' = Append(units_run, Tasks[task_idx])
    /\ UNCHANGED <<task_idx, completed_tasks, failed_tasks, execution_log, report>>
    /\ UNCHANGED <<max_attempts, kernel, attempt, code, conversation, last_error,
                   last_output, raw_output, success, result_data, task_result,
                   llm_calls, kernel_execs, exception, env_log>>
    /\ UNCHANGED <<ordVars, discVars, sessVars, extVars>>
\* executor.py 655-669: execute_task has returned
RecordResult ==
    /\ pc = "task_ret"
    /\ task_idx \in 1..Len(Tasks)
    /\ execution_log' = Append(execution_log, LogEntry(Tasks[task_idx], task_result))
    /\ IF task_result.success
       THEN /\ completed_tasks' = Append(completed_tasks, Tasks[task_idx])
            /\ pc' = "mig_loop"
            /\ task_idx' = task_idx + 1
            /\ UNCHANGED <<failed_tasks, kernel, exception>>
       ELSE /\ failed_tasks' = Append(failed_tasks, Tasks[task_idx])
            /\ UNCHANGED completed_tasks
            /\ IF FailurePrintRaises(task_result)
               THEN /\ pc' = "mig_raised"
                    /\ exception' = "TypeError"
                    /\ kernel' = "none"
                    /\ UNCHANGED task_idx
               ELSE /\ pc' = "mig_loop"
                    /\ task_idx' = task_idx + 1
                    /\ UNCHANGED <<kernel, exception>>
    /\ UNCHANGED <<units_run, report>>
    /\ UNCHANGED <<max_attempts, attempt, code, conversation, last_error, last_output,
                   raw_output, success, result_data, task_result, llm_calls,
                   kernel_execs, env_log>>
    /\ UNCHANGED <<ordVars, discVars, sessVars, extVars>>
\* executor.py 671-672: an exception of execute_task leaves execute_migration
\* through the finally clause
PropagateRaise ==
    /\ pc = "task_raised"
    /\ task_idx \in 1..Len(Tasks)
    /\ pc' = "mig_raised"
    /\ kernel' = "none"
    /\ UNCHANGED <<max_attempts, attempt, code, conversation, last_error, last_output,
                   raw_output, success, result_data, task_result, llm_calls,
                   kernel_execs, exception, env_log>>
    /\ UNCHANGED <<migVars, ordVars, discVars, sessVars, extVars>>
\* executor.py 671-703: the loop is over; shutdown and report
FinishMigration ==
    /\ pc = "mig_loop"
    /\ task_idx > Len(Tasks)
    /\ kernel' = "none"
    /\ report' = Report(completed_tasks, failed_tasks, execution_log)
    /\ pc' = "mig_done"
    /\ UNCHANGED <<task_idx, units_run, completed_tasks, failed_tasks, execution_log>>
    /\ UNCHANGED <<max_attempts, attempt, code, conversation, last_error, last_output,
                   raw_output, success, result_data, task_result, llm_calls,
                   kernel_execs, exception, env_log>>
    /\ UNCHANGED <<ordVars, discVars, sessVars, extVars>>
(***************************************************************************)
(* JupyterKernelSession (executor.py 16-84, schema_analyzer.py 672-740; the *)
(* two classes have the same code).  The session is driven by any sequence *)
(* of calls of start / execute / shutdown made by a single thread; the     *)
(* kernel delivers messages on the iopub channel at any time.              *)
(***************************************************************************)
Contexts == {"k1", "k2"}            \* kernel processes a session can launch
SubmissionIds == {"m1", "m2"}       \* msg_ids kc.execute hands out
ForeignId == "other"                \* parent id of a message of no submission of this client

\* an iopub message: parent_header.msg_id, header.msg_type (with the
\* execution_state of a status message), and the text it carries
Message(p, t, x) == [parent |-> p, msg_type |-> t, text |-> x]

\* the messages the kernel can send about one submission
MessagesOf(p) ==
    {Message(p, "stream", <<"a">>),             \* content.text = "a"
     Message(p, "execute_result", <<"b">>),     \* content.data["text/plain"] = "b"
     Message(p, "execute_result", <<>>),        \* no text/plain in content.data
     Message(p, "error", <<"tb">>),             \* content.traceback
     Message(p, "status_idle", <<>>),
     Message(p, "status_busy", <<>>)}

ForeignMessages ==
    {Message(ForeignId, "stream", <<"a">>),
     Message(ForeignId, "status_idle", <<>>)}

\* "".join(output_chunks)
RECURSIVE Join(_)
Join(chunks) == IF chunks = <<>> THEN <<>> ELSE Head(chunks) \o Join(Tail(chunks))

SessResult(c, o, out) == [call |-> c, outcome |-> o, out |-> out]
NoCall == SessResult("none", "none", <<>>)

lifeVars == <<km, kc, started, alive, launched, channel, read_pos, sess_result>>
execVars == <<spc, msg_id, submitted, sub_start, output_chunks, waited, since_submit>>

\* how a call of start() can go: all steps succeed; km.start_kernel() raises;
\* the kernel is launched and kc.wait_for_ready() times out
StartOutcomes == {"ok", "launch_fails", "ready_timeout"}

\* start() raises
StartRaises(o) == ~started /\ o # "ok"

\* executor.py 28-29: if self._started: return
AlreadyStarted(st) == st

\* JupyterKernelSession.start, executor.py 26-35
DoStart(o) ==
    IF AlreadyStarted(started)
    THEN /\ sess_result' = SessResult("start", "returned", <<>>)
         /\ UNCHANGED <<km, kc, started, alive, launched, channel, read_pos>>
    ELSE IF o = "launch_fails"
    THEN /\ km' = "unlaunched"
         /\ sess_result' = SessResult("start", "StartupError", <<>>)
         /\ UNCHANGED <<kc, started, alive, launched, channel, read_pos>>
    ELSE LET fresh == CHOOSE c \in Contexts \ launched : TRUE
         IN  /\ launched # Contexts
             /\ km' = fresh
             /\ kc' = fresh
             /\ alive' = alive \cup {fresh}
             /\ launched' = launched \cup {fresh}
             /\ channel' = <<>>
             /\ read_pos' = 0
             /\ started' = (o = "ok")
             /\ sess_result' = SessResult("start",
                                   IF o = "ok" THEN "returned" ELSE "StartupError", <<>>)

\* faulty variant: a failing teardown step is not caught
NotSwallowed(failed) == IF failed THEN "RuntimeError" ELSE "none"

\* executor.py 73-76, 79-82: try / except Exception: pass
Swallowed(failed) == "none"

\* JupyterKernelSession.shutdown, executor.py 70-84.  chFail: kc.stop_channels()
\* raises; kmFail: km.shutdown_kernel() raises and leaves the kernel process alive
DoShutdown(chFail, kmFail) ==
    /\ kc' = "none"
    /\ km' = "none"
    /\ started' = FALSE
    /\ alive' = IF km \in Contexts /\ ~kmFail THEN alive \ {km} ELSE alive
    /\ sess_result' = SessResult("shutdown",
                          IF Swallowed((kc # "none" /\ chFail) \/ (km # "none" /\ kmFail)) = "none"
                          THEN "returned" ELSE "RuntimeError", <<>>)
    /\ UNCHANGED <<launched, channel, read_pos>>

Start(o) ==
    /\ spc = "idle"
    /\ DoStart(o)
    /\ UNCHANGED execVars
    /\ UNCHANGED <<taskVars, migVars, ordVars, discVars, extVars>>
Shutdown(chFail, kmFail) ==
    /\ spc = "idle"
    /\ DoShutdown(chFail, kmFail)
    /\ UNCHANGED execVars
    /\ UNCHANGED <<taskVars, migVars, ordVars, discVars, extVars>>
\* faulty variant: execute() is accepted whenever a client exists
AcceptedWithClient(st, client) == client # "none"

\* executor.py 39: if not self._started or not self.kc: raise RuntimeError
Accepted(st, client) == st /\ client # "none"

\* faulty variant: a second call is made while execute() is still waiting
CallerFreeAlways(position) == TRUE

\* the calls are made by one thread: a call begins when the previous one has ended
CallerFree(position) == position = "idle"

\* executor.py 39-43: the call of execute() up to its loop
Execute ==
    /\ CallerFree(spc)
    /\ IF ~Accepted(started, kc)
       THEN /\ sess_result' = SessResult("execute", "NotStartedError", <<>>)
            /\ UNCHANGED execVars
       ELSE LET id == CHOOSE m \in SubmissionIds : \A i \in 1..Len(submitted) : submitted[i] # m
            IN  /\ Len(submitted) < Cardinality(SubmissionIds)
                /\ msg_id' = id
                /\ submitted' = Append(submitted, id)
                /\ output_chunks' = <<>>
                /\ spc' = "executing"
                /\ sub_start' = read_pos
                /\ waited' = 0
                /\ since_submit' = 0
                /\ sess_result' = SessResult("execute", "waiting", <<>>)
    /\ UNCHANGED <<km, kc, started, alive, launched, channel, read_pos>>
    /\ UNCHANGED <<taskVars, migVars, ordVars, discVars, extVars>>
\* faulty variant: the parent id is not looked at
BelongsAlways(msg, id) == TRUE

\* executor.py 51: the message belongs to this submission
Belongs(msg, id) == msg.parent = id

\* faulty variant: an error message is skipped
EndsWithErrorNever(msg) == FALSE

\* executor.py 62-64
EndsWithError(msg) == msg.msg_type = "error"

\* executor.py 47-66: get_iopub_msg hands out the next message; one pass of the loop
GetIopubMsg ==
    /\ spc = "executing"
    /\ read_pos < Len(channel)
    /\ read_pos' = read_pos + 1
    /\ waited' = 0
    /\ LET msg == channel[read_pos + 1]
       IN  IF ~Belongs(msg, msg_id)
           THEN UNCHANGED <<output_chunks, spc, sess_result>>
           ELSE IF msg.msg_type = "stream"
           THEN /\ output_chunks' = Append(output_chunks, msg.text)
                /\ UNCHANGED <<spc, sess_result>>
           ELSE IF msg.msg_type = "execute_result"
           THEN /\ output_chunks' = IF msg.text # <<>> THEN Append(output_chunks, msg.text)
                                    ELSE output_chunks
                /\ UNCHANGED <<spc, sess_result>>
           ELSE IF EndsWithError(msg)
           THEN /\ spc' = "idle"
                /\ sess_result' = SessResult("execute", "ExecutionError", msg.text)
                /\ UNCHANGED output_chunks
           ELSE IF msg.msg_type = "status_idle"
           THEN /\ spc' = "idle"
                /\ sess_result' = SessResult("execute", "returned", Join(output_chunks))
                /\ UNCHANGED output_chunks
           ELSE UNCHANGED <<output_chunks, spc, sess_result>>
    /\ UNCHANGED <<km, kc, started, alive, launched, channel>>
    /\ UNCHANGED <<msg_id, submitted, sub_start, since_submit>>
    /\ UNCHANGED <<taskVars, migVars, ordVars, discVars, extVars>>
\* time passes while get_iopub_msg waits on the empty channel
Tick ==
    /\ spc = "executing"
    /\ read_pos = Len(channel)
    /\ waited < MaxWait
    /\ waited' = waited + 1
    /\ since_submit' = IF since_submit <= MaxWait THEN since_submit + 1 ELSE since_submit
    /\ UNCHANGED <<spc, msg_id, submitted, sub_start, output_chunks>>
    /\ UNCHANGED lifeVars
    /\ UNCHANGED <<taskVars, migVars, ordVars, discVars, extVars>>
\* executor.py 48-49: get_iopub_msg raises queue.Empty after self.timeout
QueueEmpty ==
    /\ spc = "executing"
    /\ read_pos = Len(channel)
    /\ waited = MaxWait
    /\ spc' = "idle"
    /\ sess_result' = SessResult("execute", "TimeoutError", <<>>)
    /\ UNCHANGED <<km, kc, started, alive, launched, channel, read_pos>>
    /\ UNCHANGED <<msg_id, submitted, sub_start, output_chunks, waited, since_submit>>
    /\ UNCHANGED <<taskVars, migVars, ordVars, discVars, extVars>>
\* the kernel of the connected context sends a message
Deliver(m) ==
    /\ kc \in alive
    /\ Len(channel) < MaxMsgs
    /\ \/ m \in ForeignMessages
       \/ \E i \in 1..Len(submitted) : m \in MessagesOf(submitted[i])
    /\ channel' = Append(channel, m)
    /\ UNCHANGED <<km, kc, started, alive, launched, read_pos, sess_result>>
    /\ UNCHANGED execVars
    /\ UNCHANGED <<taskVars, migVars, ordVars, discVars, extVars>>
\* the messages that end a call of execute()
EndMessages == {m \in UNION {MessagesOf(p) : p \in SubmissionIds} :
                   m.msg_type \in {"error", "status_idle"}}

AllMessages == ForeignMessages \cup UNION {MessagesOf(p) : p \in SubmissionIds}

(***************************************************************************)
(* SchemaAnalyzerAgent: fingerprint and discovery loop                     *)
(***************************************************************************)
Entity(n, rc, cols, pk, fks) ==
    [table_name |-> n, row_count |-> rc, columns |-> cols, primary_key |-> pk,
     foreign_keys |-> fks]
ForeignKey(t, cc, rc) == [referred_table |-> t, constrained_columns |-> cc, referred_columns |-> rc]

\* the order of str on the table names
NameOrd(n) == CASE n = "A" -> 1 [] n = "B" -> 2 [] n = "C" -> 3

\* sorted(metadata, key=table_name): stable insertion by key
InsertByName(x, s) ==
    LET k == Cardinality({i \in 1..Len(s) : NameOrd(s[i].table_name) <= NameOrd(x.table_name)})
    IN  SubSeq(s, 1, k) \o <<x>> \o SubSeq(s, k + 1, Len(s))
RECURSIVE SortByName(_)
SortByName(m) ==
    IF m = <<>> THEN <<>>
    ELSE InsertByName(m[Len(m)], SortByName(SubSeq(m, 1, Len(m) - 1)))

\* schema_analyzer.py 520-527
FkSignature(fks) ==
    [i \in 1..Len(fks) |->
        <<fks[i].referred_table, fks[i].constrained_columns, fks[i].referred_columns>>]

\* faulty variant: the entities are taken in the order given
BuildFingerprintUnsorted(m) ==
    [i \in 1..Len(m) |->
        <<m[i].table_name, m[i].row_count, m[i].columns, m[i].primary_key,
          FkSignature(m[i].foreign_keys)>>]

\* SchemaAnalyzerAgent._build_fingerprint
BuildFingerprint(m) ==
    LET s == SortByName(m)
    IN  [i \in 1..Len(s) |->
            <<s[i].table_name, s[i].row_count, s[i].columns, s[i].primary_key,
              FkSignature(s[i].foreign_keys)>>]

\* prev_fingerprint = None; _build_fingerprint is called with non-empty metadata
\* only, so it never returns the empty tuple that stands for None here
NoFingerprint == <<>>

\* faulty variant: a mismatch does not reset the counter
StableRoundsNoReset(fingerprint, prev, rounds) == rounds + 1

\* schema_analyzer.py 231-234
StableRounds(fingerprint, prev, rounds) ==
    IF fingerprint = prev THEN rounds + 1 ELSE 1

\* faulty variant: one parsed payload is enough
IsSatisfiedAfterOne(rounds, required) == rounds >= 1

\* schema_analyzer.py 236
IsSatisfied(rounds, required) == rounds >= required

\* the payloads the generated inspection code may print
EntA  == Entity("A", 2, <<"id", "x">>, <<"id">>, <<>>)
EntA2 == Entity("A", 3, <<"id", "x">>, <<"id">>, <<>>)
EntB  == Entity("B", 1, <<"id", "a_id">>, <<"id">>, <<ForeignKey("A", <<"a_id">>, <<"id">>)>>)
PayloadTokens == {"P_AB",      \* {"tables": [A, B], "relationships": []}
                  "P_BA",      \* {"tables": [B, A], "relationships": []}
                  "P_A2B",     \* {"tables": [A with another row count, B], ...}
                  "P_EMPTY"}   \* {"tables": []}
\* the value of "tables" in json.loads of a payload token
PayloadTables(tok) ==
    CASE tok = "P_AB"    -> <<EntA, EntB>>
      [] tok = "P_BA"    -> <<EntB, EntA>>
      [] tok = "P_A2B"   -> <<EntA2, EntB>>
      [] tok = "P_EMPTY" -> <<>>
Payloads == {PayloadTables(tok) : tok \in PayloadTokens}

\* position of the first occurrence of a token, 0 when there is none
FirstAt(out, tok) ==
    IF \E i \in 1..Len(out) : out[i] = tok
    THEN CHOOSE i \in 1..Len(out) : out[i] = tok /\ \A j \in 1..(i - 1) : out[j] # tok
    ELSE 0

\* START occurs strictly before END
MarkersInOrder(out) ==
    /\ FirstAt(out, RESULT_START) > 0
    /\ FirstAt(out, RESULT_END) > FirstAt(out, RESULT_START)

\* the text between the markers, without the surrounding whitespace
Between(out) ==
    Strip(SubSeq(out, FirstAt(out, RESULT_START) + 1, FirstAt(out, RESULT_END) - 1))

\* what oracle and kernel can answer in one iteration:
\*   "short"  the oracle's artifact has fewer than 50 characters of code
\*   "error"  session.execute raised (error message of the kernel, or timeout)
\*   "fatal"  the generation request itself raised
\*   "output" session.execute returned the text out
DiscAnswer(k, out) == [kind |-> k, out |-> out]
NoDiscAnswer == DiscAnswer("none", <<>>)
DiscAnswers ==
    {DiscAnswer("short", <<>>), DiscAnswer("error", <<>>), DiscAnswer("fatal", <<>>)}
    \cup {DiscAnswer("output", <<RESULT_START, tok, RESULT_END>>) :
             tok \in PayloadTokens \cup {"J_LIST", "T_PLAIN"}}
    \cup {DiscAnswer("output", <<"P_AB">>),
          DiscAnswer("output", <<RESULT_END, "P_AB", RESULT_START>>)}

\* the kernel printed a JSON object between the two markers, in order
PrintedPayload(ans) ==
    /\ ans.kind = "output"
    /\ MarkersInOrder(ans.out)
    /\ Len(Between(ans.out)) = 1
    /\ Between(ans.out)[1] \in PayloadTokens
\* its tables
PrintedTables(ans) == PayloadTables(Between(ans.out)[1])

\* what _parse_kernel_output gives: the decoded payload, or raised
KernelPayload(r, k, t) == [raised |-> r, kind |-> k, tables |-> t]

\* schema_analyzer.py 490
PayloadMarkersUnusable(start_idx, end_idx) ==
    start_idx = -1 \/ end_idx = -1 \/ end_idx <= start_idx

\* faulty variant: the payload's tables are ignored
TablesOfNothing(tok) == <<>>

\* schema_analyzer.py 213: payload.get("tables", [])
TablesOf(tok) == PayloadTables(tok)

\* SchemaAnalyzerAgent._parse_kernel_output
ParseKernelOutput(raw) ==
    LET start_idx == Find(raw, RESULT_START)
        end_idx   == Find(raw, RESULT_END)
    IN  IF PayloadMarkersUnusable(start_idx, end_idx)
        THEN KernelPayload(TRUE, "none", <<>>)
        ELSE LET json_text == Strip(SubSeq(raw, start_idx + 2, end_idx))
             IN  IF Len(json_text) = 1 /\ json_text[1] \in PayloadTokens
                 THEN KernelPayload(FALSE, "dict", TablesOf(json_text[1]))
                 ELSE IF Len(json_text) = 1 /\ json_text[1] = "J_LIST"
                 THEN KernelPayload(FALSE, "list", <<>>)
                 ELSE KernelPayload(TRUE, "none", <<>>)

\* faulty variant: the loop makes one more pass
LoopContinuesOnceMore(i, max) == i <= max

\* schema_analyzer.py 169: while iteration < self.max_iterations
LoopContinues(i, max) == i < max

\* faulty variant: an empty table list is taken as a result
NoEntitiesNever(m) == FALSE

\* schema_analyzer.py 217: if not metadata
NoEntities(m) == m = <<>>

\* schema_analyzer.py 281-282: "success": bool(metadata)
AnalysisSuccess(m) == m # <<>>

\* schema_analyzer.py 266-268, the finally clause: if session_started: session.shutdown()
DiscFinally(flag, chFail, kmFail) ==
    IF flag THEN DoShutdown(chFail, kmFail) ELSE UNCHANGED lifeVars

\* schema_analyzer.py 165-167: session.start(); a failing start goes to the
\* outer except clause (257-264) and then to the finally clause with
\* session_started still False
DiscStart(o) ==
    /\ dpc = "start"
    /\ DoStart(o)
    /\ IF ~StartRaises(o)
       THEN /\ dpc' = "loop"
            /\ session_started' = TRUE
            /\ UNCHANGED <<metadata, satisfied>>
       ELSE /\ dpc' = "done"
            /\ metadata' = <<>>
            /\ satisfied' = FALSE
            /\ session_started = FALSE
            /\ UNCHANGED session_started
    /\ UNCHANGED <<iteration, stable_rounds, prev_fingerprint, max_iterations,
                   stable_rounds_required, fp_log, disc_answer, last_payload>>
    /\ UNCHANGED execVars
    /\ UNCHANGED <<taskVars, migVars, ordVars, extVars>>
\* the messages appended to the conversation of analyze_schema
DiscMsg(r, k, i) == Msg(r, k, i, None, NoneOut)

\* schema_analyzer.py 169-256: one pass of the while loop
DiscIterate(ans, chFail, kmFail) ==
    /\ dpc = "loop"
    /\ LoopContinues(iteration, max_iterations)
    /\ iteration' = iteration + 1
    /\ llm_calls' = llm_calls + 1
    /\ disc_answer' = ans
    /\ last_payload' = IF PrintedPayload(ans) THEN PrintedTables(ans) ELSE last_payload
    /\ fp_log' = IF PrintedPayload(ans) /\ PrintedTables(ans) # <<>>
                 THEN Append(fp_log, BuildFingerprint(PrintedTables(ans)))
                 ELSE fp_log
    /\ LET payload == ParseKernelOutput(ans.out)
       IN  CASE ans.kind = "fatal" \/ (ans.kind = "output" /\ ~payload.raised /\ payload.kind # "dict") ->
                 \* 174-176 raise, or 213 raises AttributeError: outer except clause 257-264
                 /\ metadata' = <<>>
                 /\ satisfied' = FALSE
                 /\ dpc' = "done"
                 /\ UNCHANGED <<stable_rounds, prev_fingerprint, conversation>>
             [] ans.kind = "short" ->
                 \* 178-185
                 /\ conversation' = Append(conversation, DiscMsg("user", "insufficient", iteration'))
                 /\ UNCHANGED <<stable_rounds, prev_fingerprint, satisfied, metadata, dpc>>
             [] ans.kind = "error" \/ (ans.kind = "output" /\ payload.raised) ->
                 \* 198-211
                 /\ conversation' = conversation \o <<DiscMsg("assistant", "code", iteration'),
                                                      DiscMsg("user", "failed", iteration')>>
                 /\ UNCHANGED <<stable_rounds, prev_fingerprint, satisfied, metadata, dpc>>
             [] ans.kind = "output" /\ ~payload.raised /\ payload.kind = "dict"
                  /\ NoEntities(payload.tables) ->
                 \* 213-227
                 /\ metadata' = payload.tables
                 /\ conversation' = conversation \o <<DiscMsg("assistant", "code", iteration'),
                                                      DiscMsg("user", "no_tables", iteration')>>
                 /\ UNCHANGED <<stable_rounds, prev_fingerprint, satisfied, dpc>>
             [] ans.kind = "output" /\ ~payload.raised /\ payload.kind = "dict"
                  /\ ~NoEntities(payload.tables) ->
                 \* 213-256
                 LET fingerprint == BuildFingerprint(payload.tables)
                     rounds      == StableRounds(fingerprint, prev_fingerprint, stable_rounds)
                 IN  /\ metadata' = payload.tables
                     /\ stable_rounds' = rounds
                     /\ prev_fingerprint' = fingerprint
                     /\ satisfied' = IsSatisfied(rounds, stable_rounds_required)
                     /\ conversation' = conversation \o <<DiscMsg("assistant", "code", iteration'),
                                                          DiscMsg("user", "success", iteration')>>
                     /\ dpc' = IF IsSatisfied(rounds, stable_rounds_required) THEN "done" ELSE "loop"
    /\ IF dpc' = "done"
       THEN DiscFinally(session_started, chFail, kmFail)
       ELSE UNCHANGED lifeVars
    /\ UNCHANGED <<max_iterations, stable_rounds_required, session_started>>
    /\ UNCHANGED execVars
    /\ UNCHANGED <<taskOnlyVars, migVars, ordVars, extVars>>
\* schema_analyzer.py 169: the while condition fails
DiscExhaust(chFail, kmFail) ==
    /\ dpc = "loop"
    /\ ~LoopContinues(iteration, max_iterations)
    /\ dpc' = "done"
    /\ DiscFinally(session_started, chFail, kmFail)
    /\ UNCHANGED <<iteration, stable_rounds, prev_fingerprint, satisfied, metadata,
                   max_iterations, stable_rounds_required, session_started, fp_log,
                   disc_answer, last_payload>>
    /\ UNCHANGED execVars
    /\ UNCHANGED <<taskVars, migVars, ordVars, extVars>>
(***************************************************************************)
(* Initial states and specifications                                       *)
(***************************************************************************)
TaskLocalsInit ==
    /\ attempt = 0
    /\ code = "none"
    /\ conversation = <<>>
    /\ last_error = None
    /\ last_output = NoneOut
    /\ raw_output = NoneOut
    /\ success = FALSE
    /\ result_data = EmptyDict
    /\ task_result = NoResult
    /\ llm_calls = 0
    /\ kernel_execs = 0
    /\ exception = "none"
    /\ env_log = <<>>

MigInit ==
    /\ task_idx = 0
    /\ units_run = <<>>
    /\ completed_tasks = <<>>
    /\ failed_tasks = <<>>
    /\ execution_log = <<>>
    /\ report = NoReport

OrdLocalsInit ==
    /\ table_deps = <<>>
    /\ ordered_tables = <<>>
    /\ remaining = {}
    /\ opc = "deps"

SessLocalsInit ==
    /\ km = "none"
    /\ kc = "none"
    /\ started = FALSE
    /\ alive = {}
    /\ launched = {}
    /\ spc = "idle"
    /\ msg_id = "none"
    /\ submitted = <<>>
    /\ channel = <<>>
    /\ read_pos = 0
    /\ sub_start = 0
    /\ output_chunks = <<>>
    /\ sess_result = NoCall
    /\ waited = 0
    /\ since_submit = 0

\* nothing has been handed to _build_fingerprint
FpIdle ==
    /\ fp_metadata = <<>>
    /\ fp_other = <<>>
    /\ fp_how = "none"
    /\ fp_first = NoFingerprint
    /\ fp_second = NoFingerprint

\* a planner that has not been sent an instruction
PlanLocalsInit ==
    /\ ppc = "idle"
    /\ plan_attempt = 0
    /\ messages = <<>>
    /\ response_content = <<>>
    /\ history = <<>>
    /\ plan_replies = <<>>
    /\ instructions_sent = 0
PlanIdle == max_retries = 1 /\ PlanLocalsInit

\* azure_openai_client.py 53
UsageIdle == total_usage = RequestUsage(0, 0)

\* api_server.py 41: migrations = {}
Runs == {"r1", "r2"}
Readers == {"c1", "c2"}
ApiIdle ==
    /\ migrations = [r \in Runs |-> 0]
    /\ log_lists = <<>>
    /\ add_calls = 0
    /\ appended = [r \in Runs |-> <<>>]
    /\ reads = <<>>
    /\ reads_started = 0
    /\ w_pc = "idle"
    /\ w_run = "r1"
    /\ w_list = 0
    /\ r_pc = [c \in Readers |-> "idle"]
    /\ r_run = [c \in Readers |-> "r1"]
    /\ r_list = [c \in Readers |-> 0]

\* no request sent, no attempt logged
AuditIdle ==
    /\ last_request = <<>>
    /\ task_dir = <<>>
    /\ requester = "executor"

NoRegistry == [complete |-> FALSE, success |-> FALSE, phase3 |-> "running"]
CallerIdle ==
    /\ reinvocations = 0
    /\ registry = NoRegistry

ExtInit == FpIdle /\ PlanIdle /\ UsageIdle /\ ApiIdle /\ AuditIdle /\ CallerIdle

DiscLocalsInit ==
    /\ session_started = FALSE
    /\ iteration = 0
    /\ stable_rounds = 0
    /\ prev_fingerprint = NoFingerprint
    /\ satisfied = FALSE
    /\ metadata = <<>>
    /\ dpc = "start"
    /\ fp_log = <<>>
    /\ disc_answer = NoDiscAnswer
    /\ last_payload = <<>>

\* the catalogs handed to execute_migration: the chain A <- B <- C, and the
\* 2-cycle A->B, B->A plus the independent C
ChainCatalog == <<Table("A", {}), Table("B", {"A"}), Table("C", {"B"})>>
TwoCyclePlusC == <<Table("A", {"B"}), Table("B", {"A"}), Table("C", {})>>
MigCatalogs == {ChainCatalog, TwoCyclePlusC}

\* ---- one call of WorkerAgent.execute_task ----
START_END(tok) == <<RESULT_START, tok, RESULT_END>>
TaskKernelAnswers ==
    {KernelOutput(START_END(tok)) : tok \in JsonTokens \cup {"T_PLAIN"}}
    \cup {KernelOutput(<<"T_OK">>), KernelOutput(<<"T_ERR">>), KernelOutput(<<>>),
          KernelOutput(<<RESULT_END, "J_TRUE", RESULT_START>>),
          KernelError, KernelTimeout}

InitTask ==
    /\ ExtInit
    /\ max_attempts \in 1..MaxAttempts
    /\ kernel \in {"none", "started"}
    /\ pc = "task_begin"
    /\ TaskLocalsInit /\ MigInit
    /\ tables = <<>> /\ OrdLocalsInit
    /\ max_iterations = 0 /\ stable_rounds_required = 0 /\ DiscLocalsInit /\ SessLocalsInit

NextTask ==
    \/ BeginTask
    \/ \E o \in OracleAnswers, usage \in Usages : AskLLM(o, usage)
    \/ \E k \in TaskKernelAnswers : RunCode(k)

SpecTask == InitTask /\ [][NextTask]_vars

\* ---- one attempt of execute_task over every raw output ----
InitParse ==
    /\ ExtInit
    /\ max_attempts = 1
    /\ kernel = "started"
    /\ pc = "task_begin"
    /\ TaskLocalsInit /\ MigInit
    /\ tables = <<>> /\ OrdLocalsInit
    /\ max_iterations = 0 /\ stable_rounds_required = 0 /\ DiscLocalsInit /\ SessLocalsInit

NextParse ==
    \/ BeginTask
    \/ AskLLM("code", RequestUsage(2, 1))
    \/ pc = "exec" /\ \E out \in SeqsUpTo(Tokens, MaxOutLen) : RunCode(KernelOutput(out))

SpecParse == InitParse /\ [][NextParse]_vars

\* ---- the dependency orderer over every catalog ----
\* an entry refers to any set of other tables, or to itself alone
Catalogs ==
    SeqsUpTo({Table(n, refs) : n \in Names, refs \in SUBSET Names}
                 \cap {e \in [table_name : Names, refs : SUBSET Names] :
                          e.table_name \notin e.refs \/ e.refs = {e.table_name}},
             MaxTables)

InitOrder ==
    /\ ExtInit
    /\ max_attempts = 1
    /\ kernel = "started"
    /\ pc = "mig_build"
    /\ TaskLocalsInit /\ MigInit
    /\ tables \in Catalogs /\ OrdLocalsInit
    /\ max_iterations = 0 /\ stable_rounds_required = 0 /\ DiscLocalsInit /\ SessLocalsInit

SpecOrder == InitOrder /\ [][OrderStep]_vars

\* ---- the ordering loop on every catalog of the four tables A, B, C, D ----
\* each table refers to any set of the other three
FourTableCatalogs ==
    {<<Table("A", ra), Table("B", rb), Table("C", rc), Table("D", rd)>> :
        ra \in SUBSET (FourNames \ {"A"}), rb \in SUBSET (FourNames \ {"B"}),
        rc \in SUBSET (FourNames \ {"C"}), rd \in SUBSET (FourNames \ {"D"})}

InitOrderFour ==
    /\ ExtInit
    /\ max_attempts = 1
    /\ kernel = "started"
    /\ pc = "mig_build"
    /\ TaskLocalsInit /\ MigInit
    /\ tables \in FourTableCatalogs /\ OrdLocalsInit
    /\ max_iterations = 0 /\ stable_rounds_required = 0 /\ DiscLocalsInit /\ SessLocalsInit

SpecOrderFour == InitOrderFour /\ [][OrderStep]_vars

\* the loop runs on without waiting for anything
FairSpecOrder == SpecOrder /\ WF_vars(OrderStep)

\* ---- MigrationExecutor.execute_migration ----
\* (the executor builds its worker with max_attempts = 7, executor.py 420; the runs
\* here take every value of 1..MaxAttempts for it)
MigKernelAnswers ==
    {KernelOutput(START_END("J_TRUE")), KernelOutput(START_END("J_ERRSTR")),
     KernelOutput(START_END("J_ERRNUM")), KernelError}

Init ==
    /\ ExtInit
    /\ max_attempts \in 1..MaxAttempts
    /\ kernel = "none"
    /\ pc = "mig_start"
    /\ TaskLocalsInit /\ MigInit
    /\ tables \in MigCatalogs /\ OrdLocalsInit
    /\ max_iterations = 0 /\ stable_rounds_required = 0 /\ DiscLocalsInit /\ SessLocalsInit

Next ==
    \/ \E startOk \in BOOLEAN : StartMigration(startOk)
    \/ OrderStep
    \/ TasksBuilt
    \/ NextUnit
    \/ BeginTask
    \/ \E o \in OracleAnswers, usage \in Usages : AskLLM(o, usage)
    \/ \E k \in MigKernelAnswers : RunCode(k)
    \/ RecordResult
    \/ PropagateRaise
    \/ FinishMigration

Spec == Init /\ [][Next]_vars

\* ---- SchemaAnalyzerAgent.analyze_schema ----
InitDisc ==
    /\ ExtInit
    /\ max_attempts = 1
    /\ kernel = "none"
    /\ pc = "idle"
    /\ TaskLocalsInit /\ MigInit
    /\ tables = <<>> /\ OrdLocalsInit
    /\ max_iterations \in 1..MaxIterations
    /\ stable_rounds_required \in 0..MaxRounds
    /\ DiscLocalsInit /\ SessLocalsInit

NextDisc ==
    \/ \E o \in StartOutcomes : DiscStart(o)
    \/ \E ans \in DiscAnswers, chFail, kmFail \in BOOLEAN : DiscIterate(ans, chFail, kmFail)
    \/ \E chFail, kmFail \in BOOLEAN : DiscExhaust(chFail, kmFail)

SpecDisc == InitDisc /\ [][NextDisc]_vars
\* every call of the loop body (generation request, session.execute) returns
FairSpecDisc == SpecDisc /\ WF_vars(NextDisc)

\* ---- execute_migration invoked again on the same MigrationExecutor ----
\* executor.py 608-639: the locals of the call are fresh; self.execution_log,
\* assigned only in __init__ (424), is the list the earlier call appended to
Reinvoke ==
    /\ pc \in {"mig_done", "mig_raised"}
    /\ reinvocations < MaxReinvocations
    /\ reinvocations' = reinvocations + 1
    /\ pc' = "mig_start"
    /\ exception' = "none"
    /\ task_idx' = 0
    /\ completed_tasks' = <<>>
    /\ failed_tasks' = <<>>
    /\ table_deps' = <<>>
    /\ ordered_tables' = <<>>
    /\ remaining' = {}
    /\ opc' = "deps"
    /\ UNCHANGED <<tables, units_run, execution_log, report, registry>>
    /\ UNCHANGED <<max_attempts, kernel, attempt, code, conversation, last_error,
                   last_output, raw_output, success, result_data, task_result,
                   llm_calls, kernel_execs, env_log>>
    /\ UNCHANGED <<discVars, sessVars, usageVars, otherVars, auditVars>>

InitRerun ==
    /\ ExtInit
    /\ max_attempts = 1
    /\ kernel = "none"
    /\ pc = "mig_start"
    /\ TaskLocalsInit /\ MigInit
    /\ tables \in MigCatalogs /\ OrdLocalsInit
    /\ max_iterations = 0 /\ stable_rounds_required = 0 /\ DiscLocalsInit /\ SessLocalsInit

NextRerun ==
    \/ Next
    \/ Reinvoke

SpecRerun == InitRerun /\ [][NextRerun]_vars

\* ---- phase 3 of run_migration_pipeline around one execute_migration ----
\* api_server.py 377 and 390-391: complete and success are set once run_phase3 has
\* returned; exec_result["success"] and exec_result["failed_tasks"] are not read
RegistryAfterPhase3(exec_result) ==
    [complete |-> TRUE, success |-> TRUE, phase3 |-> "complete"]

\* api_server.py 372-392: run_phase3 returned the report of execute_migration
Phase3Returned ==
    /\ pc = "mig_done"
    /\ registry = NoRegistry
    /\ registry' = RegistryAfterPhase3(report)
    /\ UNCHANGED <<coreVars, usageVars, otherVars, auditVars, reinvocations>>

\* api_server.py 383-387 and 394-397: the exception of run_phase3 is re-raised
\* to the outer handler
Phase3Raised ==
    /\ pc = "mig_raised"
    /\ registry = NoRegistry
    /\ registry' = [complete |-> TRUE, success |-> FALSE, phase3 |-> "failed"]
    /\ UNCHANGED <<coreVars, usageVars, otherVars, auditVars, reinvocations>>

NextPipeline ==
    \/ Next
    \/ Phase3Returned
    \/ Phase3Raised

SpecPipeline == Init /\ [][NextPipeline]_vars

\* ---- one JupyterKernelSession under any sequence of calls ----
InitSession ==
    /\ ExtInit
    /\ max_attempts = 1
    /\ kernel = "none"
    /\ pc = "idle"
    /\ TaskLocalsInit /\ MigInit
    /\ tables = <<>> /\ OrdLocalsInit
    /\ max_iterations = 0 /\ stable_rounds_required = 0 /\ DiscLocalsInit
    /\ SessLocalsInit

NextSession ==
    \/ \E o \in StartOutcomes : Start(o)
    \/ Execute
    \/ GetIopubMsg
    \/ Tick
    \/ QueueEmpty
    \/ \E m \in EndMessages : Deliver(m)
    \/ \E chFail, kmFail \in BOOLEAN : Shutdown(chFail, kmFail)

SpecSession == InitSession /\ [][NextSession]_vars

\* ---- execute() on a started session, over every arrival of messages ----
InitChannel ==
    /\ ExtInit
    /\ max_attempts = 1
    /\ kernel = "none"
    /\ pc = "idle"
    /\ TaskLocalsInit /\ MigInit
    /\ tables = <<>> /\ OrdLocalsInit
    /\ max_iterations = 0 /\ stable_rounds_required = 0 /\ DiscLocalsInit
    /\ km = "k1" /\ kc = "k1" /\ started = TRUE
    /\ alive = {"k1"} /\ launched = {"k1"}
    /\ spc = "idle" /\ msg_id = "none" /\ submitted = <<>>
    /\ channel = <<>> /\ read_pos = 0 /\ sub_start = 0 /\ output_chunks = <<>>
    /\ sess_result = SessResult("start", "returned", <<>>)
    /\ waited = 0 /\ since_submit = 0

NextChannel ==
    \/ Execute
    \/ GetIopubMsg
    \/ Tick
    \/ QueueEmpty
    \/ \E m \in AllMessages : Deliver(m)

SpecChannel == InitChannel /\ [][NextChannel]_vars

\* the pipeline and its session at rest
CoreIdle ==
    /\ max_attempts = 1
    /\ kernel = "none"
    /\ pc = "idle"
    /\ TaskLocalsInit /\ MigInit
    /\ tables = <<>> /\ OrdLocalsInit
    /\ max_iterations = 1
    /\ stable_rounds_required = 1
    /\ DiscLocalsInit /\ SessLocalsInit

\* ---- _ask_llm_for_code of both agents on the conversations their loops build ----
\* faulty variant: the whole conversation is sent
DiscWindowUnbounded(conv) == conv

\* schema_analyzer.py 413: for msg in conversation[-8:]
DiscWindow(conv) == Window(conv, 8)

\* schema_analyzer.py 404-424: the messages list of the discovery loop's request
DiscRequest(it, conv, le) ==
    << Msg("system", "prompt", 0, None, NoneOut) >> \o
    IF it = 1
    THEN << Msg("user", "task", it, None, NoneOut) >>
    ELSE DiscWindow(conv) \o
         IF Truthy(le)
         THEN << Msg("user", "error_context", it, le, <<>>) >>
         ELSE << Msg("user", "regenerate", it, None, NoneOut) >>

\* how an earlier attempt ended: its artifact was rejected ("short"), its
\* execution raised ("failed"), or, in the discovery loop, it was accepted
\* without satisfying the loop ("stable")
AttemptKinds(who) ==
    IF who = "executor" THEN {"short", "failed"} ELSE {"short", "failed", "stable"}

\* last_error after an attempt of the given kind (executor.py 159, 187;
\* schema_analyzer.py 180, 198, 201)
ErrorAfter(kind) ==
    CASE kind = "short"  -> RejectionError(None)
      [] kind = "failed" -> "str:Kernel execution error"
      [] kind = "stable" -> None

\* the turns one attempt appends (executor.py 160-163, 191-198;
\* schema_analyzer.py 181-184, 204-211, 242-251)
TurnsOf(kind, n) ==
    IF kind = "short"
    THEN << Msg("user", "insufficient", n, ErrorAfter(kind), NoneOut) >>
    ELSE IF kind = "failed"
    THEN RepairExchange(n, ErrorAfter(kind), NoneOut)
    ELSE << Msg("assistant", "code", n, None, NoneOut),
            Msg("user", "success", n, None, NoneOut) >>

\* the conversation after the first n attempts of a history
RECURSIVE ConversationAfter(_, _)
ConversationAfter(kinds, n) ==
    IF n = 0 THEN <<>>
    ELSE ConversationAfter(kinds, n - 1) \o TurnsOf(kinds[n], n)

InitWindow ==
    /\ FpIdle /\ PlanIdle /\ UsageIdle /\ ApiIdle /\ CallerIdle
    /\ requester \in {"executor", "discovery"}
    /\ last_request = <<>>
    /\ task_dir = <<>>
    /\ max_attempts = WindowAttempts + 1
    /\ kernel = "started"
    /\ pc = "window"
    /\ code = "none"
    /\ \E kinds \in SeqsUpTo(AttemptKinds(requester), WindowAttempts) :
          /\ attempt = Len(kinds) + 1
          /\ conversation = ConversationAfter(kinds, Len(kinds))
          /\ last_error = IF kinds = <<>> THEN None ELSE ErrorAfter(kinds[Len(kinds)])
    /\ last_output = NoneOut
    /\ raw_output = NoneOut
    /\ success = FALSE
    /\ result_data = EmptyDict
    /\ task_result = NoResult
    /\ llm_calls = 0
    /\ kernel_execs = 0
    /\ exception = "none"
    /\ env_log = <<>>
    /\ MigInit
    /\ tables = <<>> /\ OrdLocalsInit
    /\ max_iterations = 0 /\ stable_rounds_required = 0 /\ DiscLocalsInit /\ SessLocalsInit

\* executor.py 323-343: the request of an attempt of execute_task
WorkerRequest ==
    /\ pc = "window"
    /\ requester = "executor"
    /\ last_request' = TaskRequest(attempt, conversation, last_error, last_output)
    /\ pc' = "window_done"
    /\ UNCHANGED <<max_attempts, kernel, attempt, code, conversation, last_error,
                   last_output, raw_output, success, result_data, task_result,
                   llm_calls, kernel_execs, exception, env_log>>
    /\ UNCHANGED <<migVars, ordVars, discVars, sessVars, usageVars, otherVars,
                   task_dir, requester, callerVars>>

\* schema_analyzer.py 404-433: the request of an iteration of analyze_schema
DiscoveryRequest ==
    /\ pc = "window"
    /\ requester = "discovery"
    /\ last_request' = DiscRequest(attempt, conversation, last_error)
    /\ pc' = "window_done"
    /\ UNCHANGED <<max_attempts, kernel, attempt, code, conversation, last_error,
                   last_output, raw_output, success, result_data, task_result,
                   llm_calls, kernel_execs, exception, env_log>>
    /\ UNCHANGED <<migVars, ordVars, discVars, sessVars, usageVars, otherVars,
                   task_dir, requester, callerVars>>

NextWindow == WorkerRequest \/ DiscoveryRequest

SpecWindow == InitWindow /\ [][NextWindow]_vars

\* ---- SchemaAnalyzerAgent._build_fingerprint on two arrangements of one entity list ----
FkToA == ForeignKey("A", <<"a_id">>, <<"id">>)
FkToB == ForeignKey("B", <<"b_id">>, <<"id">>)
FpEntities ==
    {Entity(n, 1, cols, pk, fks) :
        n \in {"A", "B", "C"},
        cols \in {<<"id">>, <<"id", "x">>},
        pk \in {<<>>, <<"id", "x">>},
        fks \in {<<>>, <<FkToA, FkToB>>}}

\* the sequence q taken in the order p
Rearranged(q, p) == [i \in 1..Len(q) |-> q[p[i]]]

\* the entity list m with the field of its i-th entity taken in the order p
WithColumns(m, i, p) ==
    [m EXCEPT ![i] = [m[i] EXCEPT !.columns = Rearranged(m[i].columns, p)]]
WithPrimaryKey(m, i, p) ==
    [m EXCEPT ![i] = [m[i] EXCEPT !.primary_key = Rearranged(m[i].primary_key, p)]]
WithForeignKeys(m, i, p) ==
    [m EXCEPT ![i] = [m[i] EXCEPT !.foreign_keys = Rearranged(m[i].foreign_keys, p)]]

InitFingerprint ==
    /\ CoreIdle /\ PlanIdle /\ UsageIdle /\ ApiIdle /\ AuditIdle /\ CallerIdle
    /\ fp_metadata \in SeqsUpTo(FpEntities, MaxEntities)
    /\ fp_other = <<>>
    /\ fp_how = "none"
    /\ fp_first = NoFingerprint
    /\ fp_second = NoFingerprint

\* _build_fingerprint is called on the list and on the rearranged list
Fingerprints(how, other) ==
    /\ fp_how = "none"
    /\ fp_how' = how
    /\ fp_other' = other
    /\ fp_first' = BuildFingerprint(fp_metadata)
    /\ fp_second' = BuildFingerprint(other)
    /\ UNCHANGED fp_metadata
    /\ UNCHANGED <<coreVars, planVars, usageVars, apiVars, auditVars, callerVars>>

PermuteEntities(p) == Fingerprints("entities", Rearranged(fp_metadata, p))
PermuteColumns(i, p) == Fingerprints("columns", WithColumns(fp_metadata, i, p))
PermutePrimaryKey(i, p) == Fingerprints("primary_key", WithPrimaryKey(fp_metadata, i, p))
PermuteForeignKeys(i, p) == Fingerprints("foreign_keys", WithForeignKeys(fp_metadata, i, p))

NextFingerprint ==
    \/ \E p \in Perms(1..Len(fp_metadata)) : PermuteEntities(p)
    \/ \E i \in 1..Len(fp_metadata) :
          \/ \E p \in Perms(1..Len(fp_metadata[i].columns)) : PermuteColumns(i, p)
          \/ \E p \in Perms(1..Len(fp_metadata[i].primary_key)) : PermutePrimaryKey(i, p)
          \/ \E p \in Perms(1..Len(fp_metadata[i].foreign_keys)) : PermuteForeignKeys(i, p)

SpecFingerprint == InitFingerprint /\ [][NextFingerprint]_vars

\* ---- PlannerAgent.send_instruction ----
PlanMsg(r, c) == [role |-> r, content |-> c]
NUDGE == PlanMsg("user", <<"Please provide your response. Do not return empty content.">>)
Placeholder == <<"[name returned empty response after max_retries attempts]">>

\* what the oracle can answer: a result with a content, or an exception
PlanReply(k, c) == [kind |-> k, content |-> c]
PlanReplies ==
    {PlanReply("content", c) : c \in {<<>>, <<"WS">>, <<"T_PLAIN">>, <<"WS", "T_PLAIN">>, NoneOut}}
    \cup {PlanReply("raise", <<>>)}

\* planner.py 55: result.content if isinstance(result.content, str) else str(result.content or "")
ContentText(c) == IF c = NoneOut THEN <<>> ELSE c

\* faulty variant: the nudge is appended after every empty reply
NudgeFollowsAlways(a, max) == TRUE

\* planner.py 63: if attempt < self.max_retries
NudgeFollows(a, max) == a < max

\* planner.py 40-51: the messages list is built, response_content = ""
SendInstruction ==
    /\ ppc \in {"idle", "returned"}
    /\ instructions_sent < MaxInstructions
    /\ instructions_sent' = instructions_sent + 1
    /\ messages' = <<PlanMsg("system", <<"system_prompt">>)>> \o history
                     \o <<PlanMsg("user", <<"instruction">>)>>
    /\ response_content' = <<>>
    /\ plan_attempt' = 0
    /\ plan_replies' = <<>>
    /\ ppc' = "loop"
    /\ UNCHANGED <<max_retries, history>>
    /\ UNCHANGED <<coreVars, fpVars, usageVars, apiVars, auditVars, callerVars>>

\* planner.py 53-67: one pass of the retry loop
PlannerAttempt(reply) ==
    /\ ppc = "loop"
    /\ plan_attempt < max_retries
    /\ plan_attempt' = plan_attempt + 1
    /\ plan_replies' = Append(plan_replies, reply)
    /\ IF reply.kind = "raise"
       THEN /\ ppc' = "raised"
            /\ UNCHANGED <<response_content, messages>>
       ELSE /\ response_content' = ContentText(reply.content)
            /\ IF Strip(ContentText(reply.content)) # <<>>
               THEN /\ ppc' = "after"
                    /\ UNCHANGED messages
               ELSE /\ ppc' = "loop"
                    /\ messages' = IF NudgeFollows(plan_attempt', max_retries)
                                   THEN Append(messages, NUDGE)
                                   ELSE messages
    /\ UNCHANGED <<max_retries, history, instructions_sent>>
    /\ UNCHANGED <<coreVars, fpVars, usageVars, apiVars, auditVars, callerVars>>

\* planner.py 69-80: the loop has ended by break or by running out of attempts
PlannerReturn ==
    /\ \/ ppc = "after"
       \/ ppc = "loop" /\ plan_attempt >= max_retries
    /\ LET content == IF Strip(response_content) = <<>> THEN Placeholder ELSE response_content
       IN  /\ response_content' = content
           /\ history' = history \o <<PlanMsg("user", <<"instruction">>),
                                       PlanMsg("assistant", content)>>
    /\ ppc' = "returned"
    /\ UNCHANGED <<max_retries, plan_attempt, messages, plan_replies, instructions_sent>>
    /\ UNCHANGED <<coreVars, fpVars, usageVars, apiVars, auditVars, callerVars>>

InitPlanner ==
    /\ CoreIdle /\ FpIdle /\ UsageIdle /\ ApiIdle /\ AuditIdle /\ CallerIdle
    /\ max_retries \in 1..MaxRetries
    /\ PlanLocalsInit

NextPlanner ==
    \/ SendInstruction
    \/ \E reply \in PlanReplies : PlannerAttempt(reply)
    \/ PlannerReturn

SpecPlanner == InitPlanner /\ [][NextPlanner]_vars

\* ---- api_server: add_log and get_migration_status on the registry ----
StatusResponse(r, c, logs) == [run |-> r, reader |-> c, logs |-> logs]

\* list.append on a list object
AppendTo(lists, id, e) == [lists EXCEPT ![id] = Append(@, e)]

\* faulty variant: the record keeps the list that was returned
LogsAfterReadKept(old, fresh) == old

\* api_server.py 126: migrations[migration_id]["logs"] = []
LogsAfterRead(old, fresh) == fresh

\* api_server.py 76-112: start_migration creates the record of a new id with "logs": []
ApiStartMigration(r) ==
    /\ migrations[r] = 0
    /\ log_lists' = Append(log_lists, <<>>)
    /\ migrations' = [migrations EXCEPT ![r] = Len(log_lists) + 1]
    /\ UNCHANGED <<add_calls, appended, reads, reads_started, w_pc, w_run, w_list,
                   r_pc, r_run, r_list>>
    /\ UNCHANGED <<coreVars, fpVars, planVars, usageVars, auditVars, callerVars>>

\* api_server.py 254-261, run without interruption
AddLog(r) ==
    /\ w_pc = "idle"
    /\ add_calls < MaxLogs
    /\ add_calls' = add_calls + 1
    /\ IF migrations[r] # 0
       THEN /\ log_lists' = AppendTo(log_lists, migrations[r], add_calls')
            /\ appended' = [appended EXCEPT ![r] = Append(@, add_calls')]
       ELSE UNCHANGED <<log_lists, appended>>
    /\ UNCHANGED <<migrations, reads, reads_started, w_pc, w_run, w_list, r_pc, r_run, r_list>>
    /\ UNCHANGED <<coreVars, fpVars, planVars, usageVars, auditVars, callerVars>>

\* api_server.py 115-128, run without interruption; an unknown id is answered
\* with 404 and changes nothing
GetMigrationStatus(c, r) ==
    /\ r_pc[c] = "idle"
    /\ reads_started < MaxReads
    /\ migrations[r] # 0
    /\ reads_started' = reads_started + 1
    /\ reads' = Append(reads, StatusResponse(r, c, log_lists[migrations[r]]))
    /\ log_lists' = Append(log_lists, <<>>)
    /\ migrations' = [migrations EXCEPT ![r] = LogsAfterRead(@, Len(log_lists) + 1)]
    /\ UNCHANGED <<add_calls, appended, w_pc, w_run, w_list, r_pc, r_run, r_list>>
    /\ UNCHANGED <<coreVars, fpVars, planVars, usageVars, auditVars, callerVars>>

\* api_server.py 256-257: the list is looked up: migrations[migration_id]["logs"].append
AddLogLookup(r) ==
    /\ w_pc = "idle"
    /\ add_calls < MaxLogs
    /\ add_calls' = add_calls + 1
    /\ IF migrations[r] # 0
       THEN /\ w_pc' = "append"
            /\ w_run' = r
            /\ w_list' = migrations[r]
       ELSE UNCHANGED <<w_pc, w_run, w_list>>
    /\ UNCHANGED <<migrations, log_lists, appended, reads, reads_started, r_pc, r_run, r_list>>
    /\ UNCHANGED <<coreVars, fpVars, planVars, usageVars, auditVars, callerVars>>

\* api_server.py 257-261: the entry is built and appended to the list looked up
AddLogAppend ==
    /\ w_pc = "append"
    /\ log_lists' = AppendTo(log_lists, w_list, add_calls)
    /\ appended' = [appended EXCEPT ![w_run] = Append(@, add_calls)]
    /\ w_pc' = "idle"
    /\ UNCHANGED <<migrations, add_calls, reads, reads_started, w_run, w_list, r_pc, r_run, r_list>>
    /\ UNCHANGED <<coreVars, fpVars, planVars, usageVars, auditVars, callerVars>>

\* api_server.py 118-125: the record is copied; the copy refers to the same list
StatusCopy(c, r) ==
    /\ r_pc[c] = "idle"
    /\ reads_started < MaxReads
    /\ migrations[r] # 0
    /\ reads_started' = reads_started + 1
    /\ r_pc' = [r_pc EXCEPT ![c] = "copied"]
    /\ r_run' = [r_run EXCEPT ![c] = r]
    /\ r_list' = [r_list EXCEPT ![c] = migrations[r]]
    /\ UNCHANGED <<migrations, log_lists, add_calls, appended, reads, w_pc, w_run, w_list>>
    /\ UNCHANGED <<coreVars, fpVars, planVars, usageVars, auditVars, callerVars>>

\* api_server.py 126: the record gets a new empty list
StatusClear(c) ==
    /\ r_pc[c] = "copied"
    /\ log_lists' = Append(log_lists, <<>>)
    /\ migrations' = [migrations EXCEPT ![r_run[c]] = LogsAfterRead(@, Len(log_lists) + 1)]
    /\ r_pc' = [r_pc EXCEPT ![c] = "cleared"]
    /\ UNCHANGED <<add_calls, appended, reads, reads_started, w_pc, w_run, w_list, r_run, r_list>>
    /\ UNCHANGED <<coreVars, fpVars, planVars, usageVars, auditVars, callerVars>>

\* api_server.py 128: the status is returned and serialised into the response
StatusRespond(c) ==
    /\ r_pc[c] = "cleared"
    /\ reads' = Append(reads, StatusResponse(r_run[c], c, log_lists[r_list[c]]))
    /\ r_pc' = [r_pc EXCEPT ![c] = "idle"]
    /\ UNCHANGED <<migrations, log_lists, add_calls, appended, reads_started,
                   w_pc, w_run, w_list, r_run, r_list>>
    /\ UNCHANGED <<coreVars, fpVars, planVars, usageVars, auditVars, callerVars>>

InitLog ==
    /\ CoreIdle /\ FpIdle /\ PlanIdle /\ UsageIdle /\ AuditIdle /\ CallerIdle
    /\ ApiIdle

\* every call runs to its end before the next one starts
NextLog ==
    \/ \E r \in Runs : ApiStartMigration(r)
    \/ \E r \in Runs : AddLog(r)
    \/ \E c \in Readers, r \in Runs : GetMigrationStatus(c, r)

SpecLog == InitLog /\ [][NextLog]_vars

\* the pipeline thread and the request threads of the readers take their steps
\* in any order
NextLogRace ==
    \/ \E r \in Runs : ApiStartMigration(r)
    \/ \E r \in Runs : AddLogLookup(r)
    \/ AddLogAppend
    \/ \E c \in Readers, r \in Runs : StatusCopy(c, r)
    \/ \E c \in Readers : StatusClear(c)
    \/ \E c \in Readers : StatusRespond(c)

SpecLogRace == InitLog /\ [][NextLogRace]_vars

(***************************************************************************)
(* Properties                                                              *)
(***************************************************************************)
Last(q) == q[Len(q)]

\* an attempt failed: malformed artifact, execution error or timeout, or an
\* envelope whose success is not true
AttemptFailed(e) ==
    \/ e.oracle = "short"
    \/ e.kernel.kind \in {"error", "timeout", "nokernel"}
    \/ e.kernel.kind = "output" /\ ParseTaskResult(e.kernel.out).success # "true"

\* an attempt whose parsed envelope has success true
AttemptSucceeded(e) ==
    /\ e.kernel.kind = "output"
    /\ ParseTaskResult(e.kernel.out).kind = "dict"
    /\ ParseTaskResult(e.kernel.out).success = "true"

\* the error an attempt ends with
AttemptError(e) ==
    IF e.oracle = "short" THEN "str:LLM returned empty or insufficient code"
    ELSE IF e.kernel.kind = "error" THEN "str:Kernel execution error"
    ELSE IF e.kernel.kind = "timeout" THEN "str:Jupyter kernel did not respond within timeout."
    ELSE IF e.kernel.kind = "nokernel" THEN "str:'NoneType' object has no attribute 'execute'"
    ELSE LET env == ParseTaskResult(e.kernel.out)
         IN  IF env.kind # "dict" THEN "str:'list' object has no attribute 'get'"
             ELSE IF env.error \notin {"absent", "false", "str:", "int:0"} THEN env.error
             ELSE IF env.message \notin {"absent", "false", "str:", "int:0"} THEN env.message
             ELSE "str:Task reported failure"

TaskEnded == pc \in {"task_ret", "task_raised"}

\* C1: when every attempt of execute_task fails and the oracle never raises,
\* execute_task returns (it does not raise) after exactly max_attempts generation
\* requests, with success false, attempts = max_attempts and last_error the error
\* of the last attempt.
C1_AllAttemptsFail ==
    ( /\ TaskEnded
      /\ exception # "UpstreamError"
      /\ \A i \in 1..Len(env_log) : AttemptFailed(env_log[i]) )
    => ( /\ pc = "task_ret"
         /\ task_result.returned
         /\ ~task_result.success
         /\ llm_calls = max_attempts
         /\ Len(env_log) = max_attempts
         /\ task_result.attempts = max_attempts
         /\ task_result.last_error = AttemptError(env_log[max_attempts]) )

\* C2: the attempt k whose parsed envelope has success true is the last one:
\* execute_task returns at once with success true, attempts = k and last_error None,
\* k generation requests have been made, no earlier attempt had succeeded, and
\* after the return no request and no execution is made.
C2_StopsAtFirstSuccess ==
    [][ /\ ( /\ pc = "exec"
             /\ Len(env_log') = Len(env_log) + 1
             /\ AttemptSucceeded(Last(env_log')) )
           => ( /\ pc' = "task_ret"
                /\ task_result'.returned
                /\ task_result'.success
                /\ task_result'.attempts = Len(env_log')
                /\ task_result'.last_error = None
                /\ llm_calls' = Len(env_log')
                /\ \A i \in 1..Len(env_log) : ~AttemptSucceeded(env_log[i]) )
        /\ pc = "task_ret" => (llm_calls' = llm_calls /\ kernel_execs' = kernel_execs)
      ]_vars

\* success on the second of three attempts
C2_Witness ==
    /\ pc = "task_ret"
    /\ max_attempts = 3
    /\ task_result.success
    /\ task_result.attempts = 2
    /\ Len(env_log) = 2
    /\ AttemptFailed(env_log[1])

IsPrefix(p, q) == Len(p) <= Len(q) /\ SubSeq(q, 1, Len(p)) = p
SeqRange(q) == {q[i] : i \in 1..Len(q)}

\* C3: the units are handed to execute_task in list order, each once; a unit for
\* which execute_task returned a failure never ends the run, so that a run which
\* meets no oracle or start-up failure reaches every unit; and every unit logged
\* as failed is in failed_task_ids of the report.
C3_FailedUnitNeverBlocks ==
    /\ IsPrefix(units_run, Tasks)
    /\ pc = "mig_raised" => ~(task_result.returned /\ ~task_result.success)
    /\ pc = "mig_done" =>
          /\ report.returned
          /\ units_run = Tasks
          /\ \A i \in 1..Len(report.execution_log) :
                report.execution_log[i].status = "failed"
                   => report.execution_log[i].task_id \in SeqRange(report.failed_task_ids)

\* C4: in a returned report completed_tasks + failed_tasks = total_tasks, the two
\* id lists are disjoint, success holds exactly when failed_tasks = 0, and the two
\* counts are the numbers of units whose execute_task succeeded and failed.
C4_ReportCounts ==
    report.returned =>
        /\ report.completed_tasks + report.failed_tasks = report.total_tasks
        /\ report.total_tasks = Len(Tasks)
        /\ SeqRange(report.completed_task_ids) \cap SeqRange(report.failed_task_ids) = {}
        /\ report.success <=> (report.failed_tasks = 0)
        /\ report.completed_tasks =
              Cardinality({i \in 1..Len(report.execution_log) :
                              report.execution_log[i].status = "success"})
        /\ report.failed_tasks =
              Cardinality({i \in 1..Len(report.execution_log) :
                              report.execution_log[i].status = "failed"})
        /\ Len(report.completed_task_ids) = report.completed_tasks
        /\ Len(report.failed_task_ids) = report.failed_tasks

\* one unit succeeded on attempt 1, the others failed all max_attempts attempts
C4_Witness ==
    /\ report.returned
    /\ max_attempts = 2
    /\ report.completed_tasks = 1
    /\ report.failed_tasks = Len(Tasks) - 1
    /\ ~report.success
    /\ \E i \in 1..Len(report.execution_log) :
          report.execution_log[i].status = "success" /\ report.execution_log[i].attempts = 1
    /\ \E i \in 1..Len(report.execution_log) :
          report.execution_log[i].status = "failed"
             /\ report.execution_log[i].attempts = max_attempts

\* the number of equal fingerprints at the end of the sequence
RunLength(log) ==
    IF log = <<>> THEN 0
    ELSE Cardinality({k \in 1..Len(log) : \A j \in k..Len(log) : log[j] = Last(log)})

\* C5: over the fingerprints of the parsed non-empty payloads, stable_rounds is the
\* number of consecutive equal fingerprints seen last (incremented on equality,
\* reset to 1 on a mismatch); for stable_rounds_required >= 1 the loop reports
\* stability exactly when that number has reached stable_rounds_required, and
\* it had not reached it at any earlier payload.
C5_StableRounds ==
    /\ stable_rounds = RunLength(fp_log)
    /\ stable_rounds_required >= 1 =>
          /\ satisfied <=> (RunLength(fp_log) >= stable_rounds_required)
          /\ satisfied => RunLength(fp_log) = stable_rounds_required
          /\ \A k \in 1..(Len(fp_log) - 1) :
                RunLength(SubSeq(fp_log, 1, k)) < stable_rounds_required

\* stability after a mismatch: the counter had been reset
C5_Witness ==
    /\ satisfied
    /\ stable_rounds_required = 2
    /\ Len(fp_log) = 4
    /\ fp_log[1] = fp_log[3]
    /\ fp_log[1] # fp_log[2]
    /\ fp_log[3] = fp_log[4]

\* the foreign-relation graph of a catalog, self-references stripped: u -> d when
\* an entry named u refers to d and d is a table of the catalog
Refers(tb, u, d) ==
    /\ u # d
    /\ d \in TableNames(tb)
    /\ \E i \in 1..Len(tb) : tb[i].table_name = u /\ d \in tb[i].refs

RECURSIVE ReachableIn(_, _, _)
ReachableIn(tb, from, k) ==
    IF k = 0 THEN from
    ELSE LET next == from \cup {d \in TableNames(tb) : \E u \in from : Refers(tb, u, d)}
         IN  ReachableIn(tb, next, k - 1)

Acyclic(tb) ==
    \A u \in TableNames(tb) :
        u \notin ReachableIn(tb, {d \in TableNames(tb) : Refers(tb, u, d)},
                             Cardinality(TableNames(tb)))

DistinctNames(tb) == \A i, j \in 1..Len(tb) : i # j => tb[i].table_name # tb[j].table_name

Pos(q, x) == CHOOSE i \in 1..Len(q) : q[i] = x

\* every table comes after the tables of the catalog it refers to
RespectsReferences(tb, ord) ==
    \A u, d \in TableNames(tb) :
        Refers(tb, u, d) =>
            /\ u \in SeqRange(ord)
            /\ d \in SeqRange(ord)
            /\ Pos(ord, d) < Pos(ord, u)

IsChain(tb) == Len(tb) = 3 /\ SeqRange(tb) = SeqRange(ChainCatalog)

\* C6 as stated: for every catalog whose foreign-relation graph is acyclic once
\* self-references are stripped, the computed order puts every referred table of
\* the catalog before the referring one, and the chain B->A, C->B gives [A, B, C].
C6_TopologicalOrder ==
    (opc = "done" /\ Acyclic(tables)) =>
        /\ RespectsReferences(tables, ordered_tables)
        /\ IsChain(tables) => ordered_tables = <<"A", "B", "C">>

\* C6 amended: the same for catalogs whose table names are pairwise distinct.
C6_TopologicalOrderDistinctNames ==
    (opc = "done" /\ Acyclic(tables) /\ DistinctNames(tables)) =>
        /\ RespectsReferences(tables, ordered_tables)
        /\ IsChain(tables) => ordered_tables = <<"A", "B", "C">>

\* the chain given in reverse
C6_Witness ==
    /\ opc = "done"
    /\ tables = <<Table("C", {"B"}), Table("B", {"A"}), Table("A", {})>>
    /\ ordered_tables = <<"A", "B", "C">>

ExactlyOnce(ord, S) ==
    /\ SeqRange(ord) = S
    /\ Len(ord) = Cardinality(S)

\* C7: for every catalog, cyclic or not, the ordering loop ends, and its output
\* holds every distinct table name of the catalog exactly once.
C7_OrderTerminates ==
    <>(opc = "done" /\ ExactlyOnce(ordered_tables, TableNames(tables)))

\* the 2-cycle A->B, B->A plus the independent C
C7_Witness ==
    /\ opc = "done"
    /\ tables = TwoCyclePlusC
    /\ ordered_tables = <<"C", "A", "B">>

\* no table of remaining is free of unresolved dependencies
CycleFound ==
    /\ opc = "sort"
    /\ remaining # {}
    /\ \A t \in remaining : table_deps[t] \cap remaining # {}

\* the names of S in the order of their first entry in the catalog
RECURSIVE InputOrder(_, _)
InputOrder(tb, S) ==
    IF tb = <<>> THEN <<>>
    ELSE LET n == Head(tb).table_name
         IN  IF n \in S THEN <<n>> \o InputOrder(Tail(tb), S \ {n})
             ELSE InputOrder(Tail(tb), S)

\* C8 as stated: when a cycle is found, the remaining tables are emitted in the
\* order of the tables in the catalog, and the loop stops.
C8_CycleInInputOrder ==
    [][CycleFound =>
          /\ opc' = "done"
          /\ ordered_tables' = ordered_tables \o InputOrder(tables, remaining)]_vars

\* C8 amended: when a cycle is found, the remaining tables are emitted, each
\* exactly once, in some order (that of the set's iteration), and the loop stops.
C8_CycleInSomeOrder ==
    [][CycleFound =>
          /\ opc' = "done"
          /\ Len(ordered_tables') = Len(ordered_tables) + Cardinality(remaining)
          /\ SubSeq(ordered_tables', 1, Len(ordered_tables)) = ordered_tables
          /\ SeqRange(SubSeq(ordered_tables', Len(ordered_tables) + 1, Len(ordered_tables')))
                = remaining]_vars

\* the cycle emitted against the order of the catalog
C8_Witness ==
    /\ opc = "done"
    /\ tables = TwoCyclePlusC
    /\ remaining = {"A", "B"}
    /\ ordered_tables = <<"C", "B", "A">>

\* an attempt of one-attempt execute_task has parsed the output raw_output
Parsed == pc = "task_ret" /\ Len(env_log) = 1 /\ env_log[1].kernel.kind = "output"

\* the three envelopes of the heuristic fallback
IsFallbackEnvelope(rd) ==
    /\ rd.kind = "dict"
    /\ \/ rd.success = "false" /\ rd.error = "str:Execution error"
       \/ rd.success = "true" /\ rd.message = "str:Task appears successful based on output"
       \/ rd.success = "false" /\ rd.error = "str:No result markers found"

\* C9: when START occurs strictly before END and the text between them is
\* {"success": true}, the parser returns an envelope with success true; when a
\* marker is absent or END does not come strictly after START, it returns one of
\* the envelopes of the heuristic fallback; in neither case does anything raise.
C9_ParseMarkers ==
    Parsed =>
        /\ exception = "none"
        /\ (MarkersInOrder(raw_output) /\ Between(raw_output) = <<"J_TRUE">>)
              => (result_data.kind = "dict" /\ result_data.success = "true"
                    /\ task_result.success)
        /\ ~MarkersInOrder(raw_output)
              => (IsFallbackEnvelope(result_data) /\ task_result.result = result_data)

\* the markers reversed around {"success": true}: the fallback, a soft success
C9_Witness ==
    /\ Parsed
    /\ raw_output = <<RESULT_END, "J_TRUE", RESULT_START>>
    /\ result_data.message = "str:Task appears successful based on output"

\* the success field of a JSON object
SuccessField(tok) ==
    CASE tok = "J_TRUE" -> TRUE
      [] tok \in {"J_FALSE", "J_ERRSTR", "J_ERRNUM", "J_MSG"} -> FALSE

\* C10: when the output holds a well-formed envelope (START before END, a JSON
\* object between them), the attempt succeeds exactly when the success field of
\* that object is true, whatever keywords the rest of the output holds.
C10_EnvelopeDecides ==
    ( /\ Parsed
      /\ MarkersInOrder(raw_output)
      /\ Len(Between(raw_output)) = 1
      /\ Between(raw_output)[1] \in JsonTokens \ {"J_LIST"} )
    => ( /\ success <=> SuccessField(Between(raw_output)[1])
         /\ task_result.success <=> SuccessField(Between(raw_output)[1]) )

\* an envelope reporting failure inside output that holds a success keyword
C10_Witness ==
    /\ Parsed
    /\ raw_output = <<"T_OK", RESULT_START, "J_FALSE", RESULT_END>>
    /\ ~task_result.success

\* some token of the output holds one of error / exception / traceback
ErrorWordIn(out) == \E i \in 1..Len(out) : HasErrorKeyword(out[i])
\* some token of the output holds one of success / completed / loaded
SuccessWordIn(out) == \E i \in 1..Len(out) : HasSuccessKeyword(out[i])

\* C11: in the fallback (a marker absent, or END not after START) output that
\* holds an error keyword in any letter case is a failure even when it also
\* holds a success keyword; output that holds only a success keyword is a soft
\* success; output that holds no keyword is a failure.
C11_FallbackPriority ==
    (Parsed /\ ~MarkersInOrder(raw_output)) =>
        IF ErrorWordIn(raw_output)
        THEN /\ result_data.success = "false"
             /\ result_data.error = "str:Execution error"
             /\ ~task_result.success
        ELSE IF SuccessWordIn(raw_output)
        THEN /\ result_data.success = "true"
             /\ result_data.message = "str:Task appears successful based on output"
             /\ task_result.success
        ELSE /\ result_data.success = "false"
             /\ result_data.error = "str:No result markers found"
             /\ ~task_result.success

\* an upper-case error word next to a success word: a failure
C11_Witness ==
    /\ Parsed
    /\ raw_output = <<"T_OK", "T_ERRUP">>
    /\ result_data.success = "false"
    /\ ~task_result.success

\* the markers are in order and the text between them is not a JSON document
UndecodableEnvelope(out) == MarkersInOrder(out) /\ ~JsonValid(Between(out))

\* C12 as stated: on a decode failure the parser does not raise and returns
\* {success: false, error: <decode message>, data: {raw: <truncated text>}}.
C12_JsonFailureWithRawData ==
    (Parsed /\ UndecodableEnvelope(raw_output)) =>
        /\ exception = "none"
        /\ result_data.success = "false"
        /\ result_data.error = "str:Failed to parse result JSON"
        /\ result_data.data # "absent"

\* C12 amended: on a decode failure the parser does not raise and returns
\* {success: false, error: <decode message and truncated text>} with no data key.
C12_JsonFailureNoData ==
    (Parsed /\ UndecodableEnvelope(raw_output)) =>
        /\ exception = "none"
        /\ result_data.kind = "dict"
        /\ result_data.success = "false"
        /\ result_data.error = "str:Failed to parse result JSON"
        /\ result_data.data = "absent"
        /\ ~task_result.success
        /\ task_result.result = result_data

\* plain text that holds a success word between the markers
C12_Witness ==
    /\ Parsed
    /\ raw_output = <<RESULT_START, "T_OK", RESULT_END>>
    /\ result_data.error = "str:Failed to parse result JSON"

\* ---- JupyterKernelSession.execute ----
\* the text of the output chunks tagged id among the messages from+1..to of the log
RECURSIVE OwnText(_, _, _, _)
OwnText(log, from, to, id) ==
    IF from >= to THEN <<>>
    ELSE LET m == log[from + 1]
         IN  (IF m.parent = id /\ m.msg_type \in {"stream", "execute_result"}
              THEN m.text ELSE <<>>) \o OwnText(log, from + 1, to, id)

\* an idle or error signal tagged id
IsEndSignal(m, id) == m.parent = id /\ m.msg_type \in {"status_idle", "error"}

\* the latest call of execute() has ended with the given outcome
ExecuteEnded(o) == spc = "idle" /\ sess_result.call = "execute" /\ sess_result.outcome = o

\* C13: the text execute() returns is the concatenation, in arrival order, of
\* the output chunks tagged with its submission that arrived before the idle
\* signal of that submission; the call ends at a message of its own submission
\* only, and no message of another submission has contributed to the output.
C13_OutputIsOwnChunks ==
    /\ ExecuteEnded("returned") =>
          /\ read_pos > sub_start
          /\ channel[read_pos] = Message(msg_id, "status_idle", <<>>)
          /\ \A i \in (sub_start + 1)..(read_pos - 1) : ~IsEndSignal(channel[i], msg_id)
          /\ sess_result.out = OwnText(channel, sub_start, read_pos, msg_id)
    /\ ExecuteEnded("ExecutionError") => IsEndSignal(channel[read_pos], msg_id)
    /\ spc = "executing" =>
          /\ \A i \in (sub_start + 1)..read_pos : ~IsEndSignal(channel[i], msg_id)
          /\ Join(output_chunks) = OwnText(channel, sub_start, read_pos, msg_id)

\* the idle signal left over by a submission that timed out arrives during the next one
C13_Witness ==
    /\ ExecuteEnded("returned")
    /\ msg_id = "m2"
    /\ channel = <<Message("m1", "status_idle", <<>>), Message("m2", "stream", <<"a">>),
                   Message("m2", "status_idle", <<>>)>>
    /\ read_pos = 3
    /\ sess_result.out = <<"a">>

\* C14: when get_iopub_msg hands out an error signal of the current submission,
\* execute() raises an execution error that carries the traceback and returns no
\* output; the session is then still started with its client, so that the next
\* execute() is accepted without a restart.
C14_ErrorRaisesAndSessionStays ==
    [][ /\ ( /\ spc = "executing"
             /\ read_pos' = read_pos + 1
             /\ channel[read_pos + 1].parent = msg_id
             /\ channel[read_pos + 1].msg_type = "error" )
           => ( /\ spc' = "idle"
                /\ sess_result' = SessResult("execute", "ExecutionError",
                                             channel[read_pos + 1].text) )
        /\ (sess_result.outcome = "ExecutionError" /\ spc = "idle")
           => ( /\ started /\ kc \in alive
                /\ (sess_result'.call = "execute" /\ sess_result' # sess_result)
                      => (sess_result'.outcome = "waiting" /\ Len(submitted') = Len(submitted) + 1) )
      ]_vars

\* after an execution error of m1, and its leftover idle signal, m2 returns its output
C14_Witness ==
    /\ ExecuteEnded("returned")
    /\ msg_id = "m2"
    /\ sub_start = 1
    /\ channel = <<Message("m1", "error", <<"tb">>), Message("m1", "status_idle", <<>>),
                   Message("m2", "status_idle", <<>>)>>

\* C15: execute() does not wait longer than the configured window for the idle
\* or error signal of its submission, whatever else arrives: once MaxWait has
\* passed since the submission it has raised the response timeout.
C15_TimeoutWithinWindow ==
    spc = "executing" => since_submit <= MaxWait

\* the submissions that have no idle or error signal on the channel yet
Unfinished ==
    {id \in SubmissionIds :
        /\ \E i \in 1..Len(submitted) : submitted[i] = id
        /\ \A j \in 1..Len(channel) : ~IsEndSignal(channel[j], id)}

C16_AtMostOneContext ==
    Cardinality(alive) <= 1

\* C17: every call of shutdown() returns normally, whatever state the session
\* is in and whichever teardown step fails, and leaves the session with no
\* client, no manager and not started; a second shutdown() changes nothing.
C17_ShutdownNeverRaises ==
    [][ sess_result'.call = "shutdown" =>
          /\ sess_result'.outcome = "returned"
          /\ kc' = "none" /\ km' = "none" /\ ~started'
          /\ spc' = "idle"
          /\ sess_result.call = "shutdown" => UNCHANGED vars
      ]_vars

\* shutdown() of a session whose kernel manager failed to stop the kernel
C17_Witness ==
    /\ sess_result = SessResult("shutdown", "returned", <<>>)
    /\ km = "none" /\ kc = "none" /\ ~started
    /\ alive = {"k1"}

\* READY: started, with a client, and no call of execute() in progress
SessionReady == started /\ kc # "none" /\ spc = "idle"

\* C18: the session becomes READY by start() only, goes from READY to EXECUTING
\* by a submission and back when execute() ends, and leaves READY for STOPPED by
\* shutdown(); execute() submits in READY only: on a session that was never
\* started, whose start() failed, or that was shut down, it raises and submits
\* nothing.
C18_ExecuteOnlyWhenReady ==
    [][ /\ submitted' # submitted => (SessionReady /\ spc' = "executing")
        /\ (spc = "idle" /\ ~SessionReady /\ sess_result'.call = "execute" /\ sess_result' # sess_result)
              => ( /\ sess_result'.outcome = "NotStartedError"
                   /\ submitted' = submitted
                   /\ spc' = "idle" /\ channel' = channel )
        /\ spc = "executing" => (started /\ kc # "none")
        /\ (spc = "executing" /\ spc' = "idle") => SessionReady'
        /\ (~started /\ started') => (sess_result'.call = "start" /\ SessionReady')
        /\ (started /\ ~started') => (spc = "idle" /\ sess_result'.call = "shutdown")
      ]_vars

\* execute() after shutdown() of a session that had been started
C18_Witness ==
    /\ sess_result = SessResult("execute", "NotStartedError", <<>>)
    /\ launched = {"k1"} /\ alive = {}
    /\ km = "none" /\ kc = "none"
    /\ submitted = <<>>

\* ---- release of the session at the end of a phase ----
\* C19: when the discovery phase is over, a session whose start() launched an
\* isolated context has been shut down, on every way out of the phase: it has
\* no client and no manager and is not started, and shutdown() was its last call.
C19_SessionReleased ==
    (dpc = "done" /\ launched # {}) =>
        /\ sess_result.call = "shutdown"
        /\ km = "none" /\ kc = "none" /\ ~started

(***************************************************************************)
(* analyze_schema: budget, exhaustion, acceptance, recoverable iterations  *)
(***************************************************************************)
\* the answer leaves no way to go on: the generation request raised, or the
\* kernel printed a JSON text between the markers that is no object
UnrecoverableAnswer(ans) ==
    \/ ans.kind = "fatal"
    \/ /\ ans.kind = "output"
       /\ MarkersInOrder(ans.out)
       /\ Between(ans.out) = <<"J_LIST">>

\* analyze_schema ended because the session could not be started
StartFailed == dpc = "done" /\ iteration = 0

NotStable == fp_log = <<>> \/ RunLength(fp_log) < stable_rounds_required

\* C22: when analyze_schema has ended without stability and without an
\* unrecoverable failure, it has used all max_iterations iterations, reports
\* satisfied = false, and the entities it holds are the tables of the last
\* payload that was printed between the markers.
C22_ExhaustedReturnsLastPayload ==
    (dpc = "done" /\ ~StartFailed /\ ~UnrecoverableAnswer(disc_answer) /\ NotStable) =>
        /\ ~satisfied
        /\ iteration = max_iterations
        /\ metadata = last_payload

\* the budget of three ran out on a failed execution; the payload of an earlier
\* iteration is what is kept
C22_Witness ==
    /\ dpc = "done"
    /\ max_iterations = 3
    /\ iteration = 3
    /\ ~satisfied
    /\ disc_answer.kind = "error"
    /\ last_payload = <<EntA2, EntB>>
    /\ metadata = <<EntA2, EntB>>

\* C23: satisfied = true only if at least stable_rounds_required iterations
\* printed a payload between the markers with at least one entity and the last
\* stable_rounds_required of these payloads have the same fingerprint; with
\* stable_rounds_required >= 2 one such iteration is not enough; the accepting
\* iteration printed such a payload, and the entities held never come from
\* anything but a payload printed between the markers.
C23_SatisfiedNeedsStablePayloads ==
    /\ satisfied =>
          /\ Len(fp_log) >= stable_rounds_required
          /\ \A k \in (Len(fp_log) - stable_rounds_required + 1)..Len(fp_log) :
                fp_log[k] = Last(fp_log)
          /\ stable_rounds_required >= 2 => Len(fp_log) >= 2
          /\ PrintedPayload(disc_answer)
          /\ PrintedTables(disc_answer) # <<>>
    /\ metadata # <<>> => metadata = last_payload

\* two equal payloads in another entity order, and one iteration that did not count
C23_Witness ==
    /\ satisfied
    /\ stable_rounds_required = 2
    /\ iteration = 3
    /\ Len(fp_log) = 2
    /\ metadata = <<EntB, EntA>>

\* an iteration that can be repaired: malformed artifact, execution error,
\* output that cannot be parsed, or a payload without entities
RecoverableAnswer(ans) ==
    \/ ans.kind \in {"short", "error"}
    \/ ans.kind = "output" /\ ~PrintedPayload(ans) /\ ~UnrecoverableAnswer(ans)
    \/ PrintedPayload(ans) /\ PrintedTables(ans) = <<>>

\* C24: an iteration whose payload is well-formed but has no entities, and
\* likewise a malformed-artifact, execution-error or parse-failure iteration,
\* does not end the loop, appends a user message to the conversation and leaves
\* stable_rounds, prev_fingerprint and satisfied as they were.
C24_RecoverableFrame ==
    [][(iteration' = iteration + 1 /\ RecoverableAnswer(disc_answer')) =>
          /\ dpc' = "loop"
          /\ Len(conversation') > Len(conversation)
          /\ IsPrefix(conversation, conversation')
          /\ Last(conversation').role = "user"
          /\ UNCHANGED <<stable_rounds, prev_fingerprint, satisfied>>]_vars

\* a payload without entities arrived after one payload had been accepted
C24_Witness ==
    /\ dpc = "loop"
    /\ PrintedPayload(disc_answer)
    /\ PrintedTables(disc_answer) = <<>>
    /\ stable_rounds = 1
    /\ prev_fingerprint # NoFingerprint
    /\ Last(conversation).kind = "no_tables"

(***************************************************************************)
(* _build_fingerprint                                                      *)
(***************************************************************************)
\* C25: for an entity list with distinct names, every permutation of the list
\* has the same fingerprint; a rearrangement of the columns, of the primary-key
\* columns or of the foreign keys of one entity that changes their order gives
\* another fingerprint.
C25_FingerprintOrder ==
    /\ (fp_how = "entities" /\ DistinctNames(fp_metadata)) => fp_first = fp_second
    /\ (fp_how \in {"columns", "primary_key", "foreign_keys"} /\ fp_other # fp_metadata) =>
          fp_first # fp_second

\* two entities were swapped and the fingerprint stayed
C25_Witness ==
    /\ fp_how = "entities"
    /\ Len(fp_metadata) = 2
    /\ DistinctNames(fp_metadata)
    /\ fp_other # fp_metadata
    /\ fp_first = fp_second

(***************************************************************************)
(* PlannerAgent.send_instruction                                           *)
(***************************************************************************)
\* a reply without content: none at all, or nothing but whitespace
EmptyReply(reply) ==
    /\ reply.kind = "content"
    /\ reply.content = NoneOut \/ \A i \in 1..Len(reply.content) : reply.content[i] = "WS"

\* the nudges among the messages of the current call
NudgesIn(msgs) == Cardinality({i \in 1..Len(msgs) : msgs[i] = NUDGE})

\* C26: for one instruction the oracle is called at most max_retries times; no
\* call follows a reply that is not empty; every empty reply but that of the
\* max_retries-th call is followed by one nudge appended to the messages, so one
\* nudge precedes each further call and none follows the last; the call returns
\* the first non-empty reply, or, when all max_retries replies were empty, a
\* placeholder text, and it raises only when the oracle call raised.
C26_BoundedNudgedRetries ==
    /\ Len(plan_replies) <= max_retries
    /\ \A k \in 1..(Len(plan_replies) - 1) : EmptyReply(plan_replies[k])
    /\ NudgesIn(messages) =
          Cardinality({k \in 1..Len(plan_replies) : EmptyReply(plan_replies[k]) /\ k < max_retries})
    /\ ppc \in {"loop", "after", "returned", "raised"} /\ plan_replies # <<>> =>
          \A i \in 1..NudgesIn(messages) : messages[Len(messages) + 1 - i] = NUDGE
    /\ ppc = "returned" =>
          /\ NudgesIn(messages) = Len(plan_replies) - 1
          /\ IF EmptyReply(Last(plan_replies))
             THEN Len(plan_replies) = max_retries /\ response_content = Placeholder
             ELSE response_content = Last(plan_replies).content
    /\ ppc = "raised" => Last(plan_replies).kind = "raise"

\* three empty replies, two nudges, the placeholder is returned
C26_Witness ==
    /\ ppc = "returned"
    /\ max_retries = 3
    /\ Len(plan_replies) = 3
    /\ \A k \in 1..3 : EmptyReply(plan_replies[k])
    /\ NudgesIn(messages) = 2
    /\ response_content = Placeholder

(***************************************************************************)
(* Failure of the oracle client                                            *)
(***************************************************************************)
\* the oracle client's create() has raised during an attempt
UpstreamRaised == exception = "UpstreamError"

RealAttempts == {i \in 1..Len(env_log) : env_log[i].oracle # "short"}

\* C30: an empty reply of the oracle does not use up one of the max_attempts
\* attempts of the unit: a unit that is given up has made max_attempts attempts
\* with a non-empty reply.
C30_EmptyReplyOutsideBudget ==
    (pc = "task_ret" /\ ~success) => Cardinality(RealAttempts) = max_attempts

(***************************************************************************)
(* The log registry of the API server                                      *)
(***************************************************************************)
\* the entries the status reads of run r have returned so far, in order
RECURSIVE DeliveredOf(_, _)
DeliveredOf(rs, r) ==
    IF rs = <<>> THEN <<>>
    ELSE (IF Head(rs).run = r THEN Head(rs).logs ELSE <<>>) \o DeliveredOf(Tail(rs), r)
Delivered(r) == DeliveredOf(reads, r)

\* a status read has returned in this step
ReadReturns == Len(reads') = Len(reads) + 1

\* C28: with calls that do not overlap, what the status reads of a run have
\* returned is at all times a prefix of what was appended to that run, in append
\* order, and right after a read of the run it is all of it: each read returns
\* exactly the entries appended since the previous read of the run (none when
\* nothing was appended), each entry is returned once, and the reads of another
\* run take nothing away.
C28_SingleConsumerQueue ==
    /\ [](\A r \in Runs : IsPrefix(Delivered(r), appended[r]))
    /\ [][ReadReturns =>
             /\ reads' = Append(reads, Last(reads'))
             /\ DeliveredOf(reads', Last(reads').run) = appended[Last(reads').run]]_vars

\* two reads of run r1: the first returned the entry appended, the second none, while
\* an entry of run r2 is still pending
C28_Witness ==
    /\ Len(reads) = 2
    /\ reads[1].run = "r1" /\ Len(reads[1].logs) = 1
    /\ reads[2].run = "r1" /\ reads[2].logs = <<>>
    /\ Len(appended["r2"]) = 1
    /\ Delivered("r2") = <<>>

\* the times entry e of run r occurs in the responses
TimesDelivered(r, e) ==
    Cardinality({<<i, j>> \in (1..Len(reads)) \X (1..MaxLogs) :
                    reads[i].run = r /\ j <= Len(reads[i].logs) /\ reads[i].logs[j] = e})

\* entry e can still reach a response: it is in the list the record of run r
\* refers to, or in the list a read in progress is about to return
StillDeliverable(r, e) ==
    \/ migrations[r] # 0 /\ e \in SeqRange(log_lists[migrations[r]])
    \/ \E c \in Readers : r_pc[c] # "idle" /\ r_run[c] = r /\ e \in SeqRange(log_lists[r_list[c]])

\* C29: under every interleaving of add_log with the status reads, every
\* appended entry is delivered to exactly one read: none is in two responses,
\* and one that is in no response yet can still reach one.
C29_ExactlyOnceDelivery ==
    \A r \in Runs : \A e \in SeqRange(appended[r]) :
        /\ TimesDelivered(r, e) <= 1
        /\ TimesDelivered(r, e) = 0 => StillDeliverable(r, e)

\* an attempt of execute_task ends with its artifact rejected (executor.py 158)
ArtifactRejected ==
    /\ Len(env_log') = Len(env_log) + 1
    /\ Last(env_log').oracle = "short"

\* C31: an attempt whose artifact is absent or near-empty is rejected without a
\* submission to the execution session; it consumes exactly one attempt of the
\* budget (the next request is that of attempt + 1, or the budget is spent and
\* execute_task returns with this attempt counted), sets last_error, and appends
\* one corrective user message to the conversation
C31_RejectedArtifactCostsOneAttempt ==
    [][ArtifactRejected =>
          /\ kernel_execs' = kernel_execs
          /\ UNCHANGED <<raw_output, last_output, channel, submitted>>
          /\ last_error' = "str:LLM returned empty or insufficient code"
          /\ Len(conversation') = Len(conversation) + 1
          /\ IsPrefix(conversation, conversation')
          /\ Last(conversation').role = "user"
          /\ Last(conversation').kind = "insufficient"
          /\ Last(conversation').attempt = attempt
          /\ \/ attempt < max_attempts /\ attempt' = attempt + 1 /\ pc' = "ask"
             \/ /\ attempt = max_attempts /\ pc' = "task_ret"
                /\ task_result'.attempts = max_attempts
                /\ ~task_result'.success]_vars

\* a rejected artifact after an attempt that failed with another error, followed
\* by the request of the next attempt
C31_Witness ==
    /\ Len(env_log) = 2
    /\ env_log[1].oracle = "code"
    /\ env_log[2].oracle = "short"
    /\ attempt = 3
    /\ pc = "exec"
    /\ kernel_execs = 1

\* an attempt of execute_task ends without success
AttemptEndsFailed ==
    /\ Len(env_log') = Len(env_log) + 1
    /\ ~success'

\* the conversation gains an assistant turn with the artifact of this attempt
\* followed by a user turn with the error and the output excerpt of this attempt
GainsRepairExchange ==
    /\ Len(conversation') = Len(conversation) + 2
    /\ IsPrefix(conversation, conversation')
    /\ LET a == conversation'[Len(conversation') - 1]
           u == Last(conversation')
       IN  /\ a.role = "assistant" /\ a.kind = "code" /\ a.attempt = attempt
           /\ u.role = "user" /\ u.kind = "failed" /\ u.attempt = attempt
           /\ u.error = AttemptError(Last(env_log'))
           /\ u.output = IF last_output' = NoneOut THEN <<>> ELSE last_output'

\* C32 as stated: on any failure path of an attempt, malformed artifact included,
\* the conversation gains the repair exchange
C32_RepairExchangeOnAnyFailure ==
    [][AttemptEndsFailed => GainsRepairExchange]_vars

\* C32: on every failure path on which the artifact was accepted (execution error,
\* timeout, failed or unparsable envelope) the conversation gains the repair
\* exchange before the next request; on the malformed-artifact path it gains one
\* corrective user turn and no assistant turn
C32_RepairExchangeAfterExecution ==
    [][AttemptEndsFailed =>
          IF Last(env_log').oracle = "short"
          THEN /\ conversation' = Append(conversation, Last(conversation'))
               /\ Last(conversation').role = "user"
               /\ Last(conversation').kind = "insufficient"
          ELSE GainsRepairExchange]_vars

\* a failed execution and a rejected artifact, each followed by its turns
C32_Witness ==
    /\ Len(env_log) = 2
    /\ env_log[1].oracle = "code" /\ env_log[1].kernel.kind = "output"
    /\ env_log[2].oracle = "short"
    /\ Len(conversation) = 3
    /\ conversation[2].output # <<>>
    /\ pc = "ask"

\* the raw output attempt e left, <<>> when its execution returned none
AttemptOutput(e) == IF e.kernel.kind = "output" THEN e.kernel.out ELSE <<>>

\* the error text of the latest request is that of the attempt before it
RequestErrorIsPrevious ==
    \A i \in 1..Len(last_request) :
        last_request[i].kind = "error_context"
        => last_request[i].error = AttemptError(env_log[last_request[i].attempt - 1])

\* C33: the error text and the output excerpt handed to the generation request of
\* attempt k+1 are those of attempt k; no output of an attempt earlier than k is
\* presented as the previous attempt's output
C33_RetryInformedByPrecedingAttempt ==
    \A i \in 1..Len(last_request) :
        last_request[i].kind = "error_context"
        => LET prev == env_log[last_request[i].attempt - 1]
           IN  /\ last_request[i].error = AttemptError(prev)
               /\ last_request[i].output \in {<<>>, AttemptOutput(prev)}

\* the conversation turns a request carries: everything but the system prompt
\* and the instruction the request ends with
Carried(req) ==
    SelectSeq(req, LAMBDA m : m.kind \notin {"prompt", "task", "error_context", "regenerate"})

WindowSize == IF requester = "executor" THEN 4 ELSE 8

\* p is the end of q
IsSuffix(p, q) ==
    Len(p) <= Len(q) /\ SubSeq(q, Len(q) - Len(p) + 1, Len(q)) = p

\* C34: every generation request carries at most 4 (execute_task) or 8 (discovery
\* loop) conversation turns, the most recent ones in their original order, so a
\* request never holds more than window + 2 messages, whatever the attempt number
C34_BoundedWindow ==
    pc = "window_done"
    => /\ Len(Carried(last_request)) <= WindowSize
       /\ IsSuffix(Carried(last_request), conversation)
       /\ attempt > 1 /\ Len(conversation) >= WindowSize
              => Len(Carried(last_request)) = WindowSize
       /\ Len(last_request) <= WindowSize + 2

\* the request of the fifth attempt of execute_task after four executed
\* attempts: eight turns in the conversation, four of them sent
C34_Witness ==
    /\ pc = "window_done"
    /\ requester = "executor"
    /\ attempt = 5
    /\ Len(conversation) = 8
    /\ Len(last_request) = 6
    /\ last_request[2] = conversation[5]

\* the log of the given type has been written for attempt k of the current unit
Logged(k, log_type) ==
    \E i \in 1..Len(task_dir) : task_dir[i] = LogAttempt(k, log_type)

\* no log file of the current unit has been written twice
NeverOverwritten ==
    \A i, j \in 1..Len(task_dir) : task_dir[i] = task_dir[j] => i = j

\* C35: every attempt of execute_task that consumed budget has its artifact
\* logged and its output or its error logged, under its own attempt number, and
\* no log is overwritten
C35_EveryAttemptLogged ==
    /\ NeverOverwritten
    /\ \A k \in 1..Len(env_log) :
          /\ Logged(k, "code")
          /\ Logged(k, "output") \/ Logged(k, "error")

\* the tables u depends on in the dependency graph the orderer built
DepsOf(u) == table_deps[u] \cap DOMAIN table_deps

\* the tables reachable from the set S along at most k dependencies
RECURSIVE Upstream(_, _)
Upstream(S, k) ==
    IF k = 0 THEN S
    ELSE Upstream(S \cup UNION {DepsOf(u) : u \in S}, k - 1)

DependsOn(u) == Upstream(DepsOf(u), Cardinality(DOMAIN table_deps))

OnCycle(u) == u \in DependsOn(u)

\* u lies on a cycle or depends, directly or transitively, on a table of a cycle
CycleAffected(u) == OnCycle(u) \/ \E d \in DependsOn(u) : OnCycle(d)

\* C36: when the dependency graph has a cycle, every table that is not
\* cycle-affected is emitted after all the tables it depends on and before every
\* cycle-affected table
C36_CycleDegradationConfined ==
    (opc = "done" /\ \E c \in DOMAIN table_deps : OnCycle(c))
    => \A u \in DOMAIN table_deps :
          ~CycleAffected(u)
          => /\ u \in SeqRange(ordered_tables)
             /\ \A d \in DepsOf(u) :
                   d \in SeqRange(ordered_tables)
                   /\ Pos(ordered_tables, d) < Pos(ordered_tables, u)
             /\ \A a \in DOMAIN table_deps :
                   CycleAffected(a)
                   => Pos(ordered_tables, u) < Pos(ordered_tables, a)

\* the cycle C <-> D next to the chain A <- B: listed first in the catalog, the
\* cycle is still emitted last, here against the order of the catalog
C36_Witness ==
    /\ opc = "done"
    /\ tables = <<Table("A", {}), Table("B", {"A"}), Table("C", {"D"}), Table("D", {"C"})>>
    /\ ordered_tables = <<"A", "B", "D", "C">>

\* the envelope attempt e parsed, the empty dict when it parsed none
AttemptEnvelope(e) ==
    IF e.kernel.kind = "output" THEN ParseTaskResult(e.kernel.out) ELSE EmptyDict

\* C37: when execute_task returns a failure, its result field is the envelope
\* parsed in the final attempt, or empty when the final attempt produced none
C37_FailureResultOfFinalAttempt ==
    (pc = "task_ret" /\ ~task_result.success)
    => task_result.result = AttemptEnvelope(Last(env_log))

\* C38: in every report returned by execute_migration, execution_log holds
\* exactly one entry per work unit of that run, in run order, also when
\* execute_migration is invoked more than once on the same MigrationExecutor
C38_OneLogEntryPerUnit ==
    (pc = "mig_done" /\ report.returned)
    => /\ Len(report.execution_log) = report.total_tasks
       /\ \A i \in 1..Len(report.execution_log) :
             i <= Len(Tasks) => report.execution_log[i].task_id = Tasks[i]

\* C39: if no unrecoverable failure occurs and at least one iteration parsed a
\* payload with one or more entities, analyze_schema returns success = true with
\* a non-empty entity catalog: no later iteration erases the entities found
C39_DiscoveredEntitiesKept ==
    (dpc = "done" /\ ~StartFailed /\ ~UnrecoverableAnswer(disc_answer) /\ fp_log # <<>>)
    => /\ metadata # <<>>
       /\ AnalysisSuccess(metadata)

\* C40: the run registry marks a migration success = true only if the report of
\* execute_migration for that run has success true and no failed work unit
C40_RegistrySuccessMeansNoFailedUnit ==
    registry.success
    => /\ report.returned
       /\ report.success
       /\ report.failed_tasks = 0
====
